---------------------------- MODULE Spec2Model ----------------------------
(***************************************************************************)
(* A model of the virtual-DOM renderer of src/src/compiler/index.js: the   *)
(* patch dispatcher, the element and children reconcilers, the keyed       *)
(* fast-diff with getSequence, the component runtime and the unmount       *)
(* walker, run against the browser host adapter of src/src/index.js.       *)
(*                                                                         *)
(* JavaScript arrays are 0-based; the model keeps the source's 0-based     *)
(* indices in its variables and reads a sequence through At(seq, i).       *)
(* A thrown exception is the flag s.thrown: every step after it is         *)
(* skipped, and what was mutated before it stays mutated.                  *)
(***************************************************************************)
EXTENDS Integers, Sequences, FiniteSets, TLC

VARIABLES
    host,             \* the host (DOM) nodes: id -> node
    cvnode,           \* container._vnode
    insts,            \* every component instance created so far, by id
    currentInstance,  \* the current-instance register (0 = null)
    count,            \* the reactive cell the component render functions read
    log,              \* host-adapter and hook calls of the call that just ended
    sched,            \* the job scheduler: queue, isFlushing, the callbacks waiting on p
    last              \* what the call that just ended was

vars == <<host, cvnode, insts, currentInstance, count, log, sched, last>>

-----------------------------------------------------------------------------
(* Bounds of the model *)

\* how many sibling keys the reconciled lists draw from
NumKeys == 4
\* the longest keyed child list that is reconciled
MaxKids == 4
\* how many component instances may be created in one run
MaxInst == 2
\* how many raising calls the caller catches and carries on after
MaxCaught == 1
\* how long an instance's list of onMounted callbacks may grow
MaxMounted == 3

-----------------------------------------------------------------------------
(* Values *)

\* el / anchor / parentNode that is undefined or null
NoEl == -1
\* the container passed to render
Root == 0
\* a prop value, default or argument that is null or undefined
Null == "null"
\* vnode.key that was not given (undefined)
UndefKey == "<undefined>"

At(seq, i) == seq[i + 1]
InRange(seq, i) == i >= 0 /\ i < Len(seq)
SetAt(seq, i, v) == [seq EXCEPT ![i + 1] = v]

Tags == {"div", "span", "p", "li"}
CompTypes == {"MyComponent", "Counter", "Broken", "Parent", "Fragile"}
FnTypes == {"FuncComponent"}

\* children: absent, primitive text, an array of vnodes, or a slot mapping
NoChildren == [kind |-> "none", text |-> "", list |-> <<>>]
TextChildren(t) == [kind |-> "text", text |-> t, list |-> <<>>]
ArrayChildren(l) == [kind |-> "array", text |-> "", list |-> l]
SlotChildren == [kind |-> "slots", text |-> "", list |-> <<>>]

\* props: absent, or an ordered list of <<name, value>> (for-in order)
NoProps == [def |-> FALSE, map |-> <<>>]
Props(pairs) == [def |-> TRUE, map |-> pairs]

PropNames(pairs) == {pairs[i][1] : i \in DOMAIN pairs}
HasProp(pairs, name) == name \in PropNames(pairs)
\* obj[name]: the value, or undefined
PropGet(pairs, name) ==
    IF HasProp(pairs, name)
    THEN pairs[CHOOSE i \in DOMAIN pairs : pairs[i][1] = name][2]
    ELSE Null
\* obj[name] = value: overwrite in place, or append a new key
PropSet(pairs, name, value) ==
    IF HasProp(pairs, name)
    THEN [i \in DOMAIN pairs |->
            IF pairs[i][1] = name THEN <<name, value>> ELSE pairs[i]]
    ELSE Append(pairs, <<name, value>>)

VNode(type, key, props, children) ==
    [type |-> type, key |-> key, props |-> props, children |-> children,
     el |-> NoEl, component |-> 0]

\* no vnode (null / undefined)
NullV == VNode("null", UndefKey, NoProps, NoChildren)

Text == "Text"
Comment == "Comment"
Fragment == "Fragment"

notEmpty(children) == children.kind # "none"

-----------------------------------------------------------------------------
(* The host adapter: document nodes and the calls made on them *)

HostNode(kind, tag, text) ==
    [kind |-> kind, tag |-> tag, text |-> text, kids |-> <<>>, parent |-> NoEl]

Ev(op, el, parent, anchor, txt, prev, next) ==
    [op |-> op, el |-> el, parent |-> parent, anchor |-> anchor,
     txt |-> txt, prev |-> prev, next |-> next]

Throw(s) == [s EXCEPT !.thrown = TRUE]
Logged(s, e) == [s EXCEPT !.log = Append(@, e)]

\* the smallest node id not yet handed out
FreshId(s) == CHOOSE n \in 1..(Cardinality(DOMAIN s.host) + 1) : n \notin DOMAIN s.host

Without(seq, x) == SelectSeq(seq, LAMBDA y : y # x)

IndexOf(seq, x) == CHOOSE i \in DOMAIN seq : seq[i] = x

InsertBefore(seq, x, anchor) ==
    IF anchor = NoEl
    THEN Append(seq, x)
    ELSE LET i == IndexOf(seq, anchor)
         IN SubSeq(seq, 1, i - 1) \o <<x>> \o SubSeq(seq, i, Len(seq))

\* node.parentNode.removeChild(node), on the node table
Detach(h, el) ==
    IF h[el].parent = NoEl
    THEN h
    ELSE [h EXCEPT ![h[el].parent].kids = Without(@, el), ![el].parent = NoEl]

NewNode(s, kind, tag, text, op) ==
    LET id == FreshId(s)
    IN [s |-> Logged([s EXCEPT !.host = (id :> HostNode(kind, tag, text)) @@ @],
                     Ev(op, id, NoEl, NoEl, IF kind = "element" THEN tag ELSE text,
                        Null, Null)),
        el |-> id]

createElement(s, tag) == NewNode(s, "element", tag, "", "createElement")
createTextNode(s, text) == NewNode(s, "text", "", text, "createTextNode")
createComment(s, text) == NewNode(s, "comment", "", text, "createComment")

\* parent.insertBefore(el, anchor): a missing anchor appends; an anchor that
\* is not a child of parent, or a missing el or parent, raises
insert(s, el, parent, anchor) ==
    IF s.thrown THEN s
    ELSE LET s1 == Logged(s, Ev("insert", el, parent, anchor, "", Null, Null))
         IN IF el = NoEl \/ parent = NoEl THEN Throw(s1)
            ELSE IF anchor # NoEl /\ s.host[anchor].parent # parent THEN Throw(s1)
            ELSE IF anchor = el THEN s1
            ELSE LET h1 == Detach(s1.host, el)
                 IN [s1 EXCEPT !.host =
                        [h1 EXCEPT ![parent].kids = InsertBefore(@, el, anchor),
                                   ![el].parent = parent]]

RECURSIVE DetachAll(_, _)
DetachAll(h, kids) ==
    IF kids = <<>> THEN h
    ELSE DetachAll([h EXCEPT ![Head(kids)].parent = NoEl], Tail(kids))

\* el.textContent = text: every child goes, the text is the only content
setElementText(s, el, text) ==
    IF s.thrown THEN s
    ELSE LET s1 == Logged(s, Ev("setElementText", el, NoEl, NoEl, text, Null, Null))
         IN IF el = NoEl THEN Throw(s1)
            ELSE [s1 EXCEPT !.host =
                    [DetachAll(s1.host, s1.host[el].kids) EXCEPT
                        ![el].kids = <<>>, ![el].text = text]]

\* the adapter's attribute/event update; the model records the call
patchProps(s, el, name, prev, next) ==
    IF s.thrown THEN s
    ELSE Logged(s, Ev("patchProps", el, NoEl, NoEl, name, prev, next))

\* parent.removeChild(el)
removeChild(s, el) ==
    LET parent == s.host[el].parent
    IN [Logged(s, Ev("removeChild", el, parent, NoEl, "", Null, Null))
          EXCEPT !.host = Detach(s.host, el)]

-----------------------------------------------------------------------------
(* Components the model renders *)

\* names that start with 'on'
OnNames == {"onChange"}
StartsWithOn(name) == name \in OnNames

\* the component descriptors (vnode.type when it is an object):
\*   propsOption  the props declaration, <<name, default>> each, or absent
\*   setup        "none", "returns" (a render function) or "throws"
\*   setupCbs     the callbacks setup hands to onMounted, in order
\*   hooks        the lifecycle options the descriptor defines
CompDef(type) ==
    CASE type = "MyComponent" ->
            [propsOption |-> Props(<< <<"title", "default title">> >>),
             setup |-> "returns", setupCbs |-> <<"cb1", "cb2">>, hooks |-> {}]
      [] type = "Counter" ->
            [propsOption |-> NoProps, setup |-> "returns",
             setupCbs |-> <<"cbC1", "cbC2">>,
             hooks |-> {"beforeCreate", "created", "beforeMount", "mounted",
                        "beforeUpdate", "updated"}]
      [] type = "Parent" ->
            [propsOption |-> NoProps, setup |-> "none", setupCbs |-> <<>>,
             hooks |-> {"mounted"}]
      [] type = "Fragile" ->
            [propsOption |-> NoProps, setup |-> "none", setupCbs |-> <<>>,
             hooks |-> {"beforeUpdate", "updated"}]
      [] OTHER ->  \* "Broken": its setup registers a callback, then raises
            [propsOption |-> NoProps, setup |-> "throws", setupCbs |-> <<"cbB">>,
             hooks |-> {}]

\* whether the component's render function reads the reactive cell
ReadsCount(type) == type \in {"Counter", "Fragile"}

CountText == <<"0", "1">>

-----------------------------------------------------------------------------
(* utils/props.js *)

\* A declaration is a list of <<name, declared>>, where declared is
\*   "<ctor>"       a constructor such as String (typeof 'function')
\*   "<null>"       null (typeof 'object')
\*   "<nodefault>"  an object without a default
\*   "<fn>"         an object whose default is a function, which returns "made"
\*   anything else  an object with that value as its default

\* names every object inherits from Object.prototype
InheritedNames == {"toString"}

\* key in propsOptions: own and inherited names alike
KeyIn(propsOptions, key) ==
    HasProp(propsOptions.map, key) \/ key \in InheritedNames

\* typeof propValue === 'object' ? propsOptions[key].default : void 0, and
\* the call of a default that is a function
DefaultOf(propsOptions, key) ==
    LET propValue == PropGet(propsOptions.map, key)
    IN IF ~HasProp(propsOptions.map, key) \/ propValue \in {"<ctor>", "<nodefault>"}
       THEN Null
       ELSE IF propValue = "<fn>" THEN "made" ELSE propValue

RECURSIVE resolveLoop(_, _, _, _)
resolveLoop(propsOptions, pairs, i, acc) ==
    IF acc.thrown \/ i > Len(pairs) THEN acc
    ELSE LET key == pairs[i][1]
             value == pairs[i][2]
         IN IF ~propsOptions.def
            THEN [acc EXCEPT !.thrown = TRUE]   \* key in undefined
            ELSE IF KeyIn(propsOptions, key) \/ StartsWithOn(key)
            THEN IF PropGet(propsOptions.map, key) = "<null>"
                 THEN [acc EXCEPT !.thrown = TRUE]   \* null.default
                 ELSE resolveLoop(propsOptions, pairs, i + 1,
                        [acc EXCEPT !.props = PropSet(@, key,
                            IF value # Null THEN value
                            ELSE DefaultOf(propsOptions, key))])
            ELSE resolveLoop(propsOptions, pairs, i + 1,
                        [acc EXCEPT !.attrs = PropSet(@, key, value)])

resolveProps(propsOptions, propsValue) ==
    resolveLoop(propsOptions, propsValue.map, 1,
                [thrown |-> FALSE, props |-> <<>>, attrs |-> <<>>])

\* a comparison that reports a change whatever it is given
hasPropsChangedAlways(prevProps, nextProps) == TRUE

\* prevProps = {}, nextProps = {} stand in for missing arguments
hasPropsChanged(prevProps, nextProps) ==
    \/ Len(nextProps.map) # Len(prevProps.map)
    \/ \E i \in DOMAIN nextProps.map :
          PropGet(prevProps.map, nextProps.map[i][1]) # nextProps.map[i][2]

-----------------------------------------------------------------------------
(* utils: getSequence *)

RECURSIVE GS_search(_, _, _, _, _)
GS_search(arr, result, arrI, u, v) ==
    IF u < v
    THEN LET c == (u + v) \div 2
         IN IF At(arr, At(result, c)) < arrI
            THEN GS_search(arr, result, arrI, c + 1, v)
            ELSE GS_search(arr, result, arrI, u, c)
    ELSE u

RECURSIVE GS_loop(_, _, _, _)
GS_loop(arr, p, result, i) ==
    IF i >= Len(arr) THEN [p |-> p, result |-> result]
    ELSE LET arrI == At(arr, i)
         IN IF arrI # 0
            THEN LET j == At(result, Len(result) - 1)
                 IN IF At(arr, j) < arrI
                    THEN GS_loop(arr, SetAt(p, i, j), Append(result, i), i + 1)
                    ELSE LET u == GS_search(arr, result, arrI, 0, Len(result) - 1)
                         IN IF arrI < At(arr, At(result, u))
                            THEN GS_loop(arr,
                                    IF u > 0 THEN SetAt(p, i, At(result, u - 1)) ELSE p,
                                    SetAt(result, u, i), i + 1)
                            ELSE GS_loop(arr, p, result, i + 1)
            ELSE GS_loop(arr, p, result, i + 1)

\* while (u-- > 0) { result[u] = v; v = p[v] }
RECURSIVE GS_back(_, _, _, _)
GS_back(p, result, u, v) ==
    IF u > 0
    THEN IF u - 1 > 0
         THEN GS_back(p, SetAt(result, u - 1, v), u - 1, At(p, v))
         ELSE SetAt(result, u - 1, v)
    ELSE result

getSequence(arr) ==
    LET r == GS_loop(arr, arr, <<0>>, 0)
        u == Len(r.result)
    IN GS_back(r.p, r.result, u, At(r.result, u - 1))

-----------------------------------------------------------------------------
(* compiler/index.js: the renderer *)

\* s is the mutable world of one call:
\*   [host, insts, cur (the current-instance register), count, log, thrown]
R(s, nv) == [s |-> s, nv |-> nv]

Hook(s, def, name, id) ==
    IF name \in def.hooks
    THEN Logged(s, Ev("hook", id, NoEl, NoEl, name, Null, Null))
    ELSE s

\* currentInstance.mounted.push(callback), or the diagnostic
onMounted(s, callback) ==
    IF s.cur # 0
    THEN [s EXCEPT !.insts[s.cur].mounted = Append(@, callback)]
    ELSE Logged(s, Ev("console.error", NoEl, NoEl, NoEl, "onMounted", Null, Null))

RECURSIVE registerAll(_, _)
registerAll(s, cbs) ==
    IF cbs = <<>> THEN s ELSE registerAll(onMounted(s, Head(cbs)), Tail(cbs))

\* the render context's get trap: state, props, setupState, then the
\* comparison of the undeclared name k, which raises
ctxGet(inst, key) ==
    IF HasProp(inst.props, key)
    THEN [thrown |-> FALSE, value |-> PropGet(inst.props, key)]
    ELSE [thrown |-> TRUE, value |-> Null]

\* the vnode tree a component's render function returns
RenderFn(inst, s) ==
    CASE inst.type = "MyComponent" ->
            LET title == ctxGet(inst, "title")
            IN [thrown |-> title.thrown,
                tree |-> VNode("div", UndefKey, NoProps, TextChildren(title.value))]
      [] inst.type = "Counter" ->
            [thrown |-> FALSE,
             tree |-> VNode("p", UndefKey, NoProps, TextChildren(CountText[s.count + 1]))]
      [] inst.type = "Fragile" ->
            \* while the cell holds 1 it reads a name that is in none of state,
            \* props and setupState through the render context
            LET extra == IF s.count = 1 THEN ctxGet(inst, "extra")
                         ELSE [thrown |-> FALSE, value |-> Null]
            IN [thrown |-> extra.thrown,
                tree |-> VNode("p", UndefKey, NoProps,
                               TextChildren(CountText[s.count + 1]))]
      [] OTHER ->  \* "Parent"
            [thrown |-> FALSE,
             tree |-> VNode("div", UndefKey, NoProps, ArrayChildren(<<
                 VNode("MyComponent", "child", Props(<< <<"title", "inner">> >>),
                       SlotChildren),
                 VNode(Text, "tail", NoProps, TextChildren("after")) >>))]

RECURSIVE unmount(_, _), unmountEach(_, _), unmountProps(_, _, _, _),
          patch(_, _, _, _, _), mountEach(_, _, _, _),
          mountElement(_, _, _, _), mountProps(_, _, _, _),
          patchElement(_, _, _), patchChildren(_, _, _, _),
          fastDiff(_, _, _, _), FD_prefix(_, _, _, _, _),
          FD_suffix(_, _, _, _, _, _, _), FD_mountTail(_, _, _, _, _, _),
          FD_unmountTail(_, _, _, _), FD_old(_, _, _, _, _, _),
          FD_move(_, _, _, _, _, _, _, _),
          mountComponent(_, _, _, _), EffectRun(_, _), runMounted(_, _, _)

\* unmount that forgets the tree a component rendered
unmountKeepsSubTree(vnode, s) ==
    IF s.thrown THEN s
    ELSE IF vnode.type = "null" THEN Throw(s)
    ELSE LET s1 == IF vnode.children.kind = "array"
                   THEN unmountEach(vnode.children.list, s) ELSE s
         IN IF s1.thrown THEN s1
            ELSE IF vnode.type \in CompTypes
            THEN s1
            ELSE LET s2 == IF vnode.props.def
                           THEN unmountProps(vnode, vnode.props.map, 1, s1) ELSE s1
                 IN IF vnode.type = Fragment
                    THEN IF vnode.children.kind = "array"
                         THEN unmountEach(vnode.children.list, s2)
                         ELSE Throw(s2)
                    ELSE IF vnode.el # NoEl /\ s2.host[vnode.el].parent # NoEl
                         THEN removeChild(s2, vnode.el)
                         ELSE s2

unmountEach(list, s) ==
    IF list = <<>> \/ s.thrown THEN s
    ELSE unmountEach(Tail(list), unmount(Head(list), s))

unmountProps(vnode, pairs, i, s) ==
    IF i > Len(pairs) THEN s
    ELSE unmountProps(vnode, pairs, i + 1,
                      patchProps(s, vnode.el, pairs[i][1], pairs[i][2], Null))

unmount(vnode, s) ==
    IF s.thrown THEN s
    ELSE IF vnode.type = "null" THEN Throw(s)
    ELSE LET s1 == IF vnode.children.kind = "array"
                   THEN unmountEach(vnode.children.list, s) ELSE s
         IN IF s1.thrown THEN s1
            ELSE IF vnode.type \in CompTypes
            THEN IF vnode.component = 0
                 THEN Throw(s1)
                 ELSE unmount(s1.insts[vnode.component].subTree,
                              [s1 EXCEPT !.insts[vnode.component].unmounted = TRUE])
            ELSE LET s2 == IF vnode.props.def
                           THEN unmountProps(vnode, vnode.props.map, 1, s1) ELSE s1
                 IN IF vnode.type = Fragment
                    THEN IF vnode.children.kind = "array"
                         THEN unmountEach(vnode.children.list, s2)
                         ELSE Throw(s2)
                    ELSE IF vnode.el # NoEl /\ s2.host[vnode.el].parent # NoEl
                         THEN removeChild(s2, vnode.el)
                         ELSE s2

\* nv.children.forEach(child => patch(null, child, container))
mountEach(list, i, container, s) ==
    IF i >= Len(list) \/ s.thrown THEN [s |-> s, list |-> list]
    ELSE LET r == patch(NullV, At(list, i), container, NoEl, s)
         IN mountEach(SetAt(list, i, r.nv), i + 1, container, r.s)

\* Text and Comment: create and insert, or reuse old.el and update its text
patchTextual(ov, nv, container, s, isText) ==
    IF ov.type = "null"
    THEN LET c == IF isText THEN createTextNode(s, nv.children.text)
                  ELSE createComment(s, nv.children.text)
         IN R(insert(c.s, c.el, container, NoEl), [nv EXCEPT !.el = c.el])
    ELSE LET el == ov.el
             nv1 == [nv EXCEPT !.el = el]
         IN IF el = NoEl THEN R(Throw(s), nv1)
            ELSE IF s.host[el].text # nv.children.text
            THEN R([Logged(s, Ev("textContent", el, NoEl, NoEl, nv.children.text,
                                 Null, Null))
                      EXCEPT !.host[el].text = nv.children.text], nv1)
            ELSE R(s, nv1)

\* patch that unmounts an old vnode of another type but goes on to diff
\* against it
patchKeepsOld(ov0, nv, container, anchor, s0) ==
    IF s0.thrown THEN R(s0, nv)
    ELSE LET differ == ov0.type # "null" /\ ov0.type # nv.type
             s == IF differ THEN unmount(ov0, s0) ELSE s0
             ov == ov0
         IN IF s.thrown THEN R(s, nv)
            ELSE IF nv.type \in Tags
            THEN IF ov.type = "null"
                 THEN mountElement(nv, container, anchor, s)
                 ELSE patchElement(ov, nv, s)
            ELSE IF nv.type = Text THEN patchTextual(ov, nv, container, s, TRUE)
            ELSE IF nv.type = Comment THEN patchTextual(ov, nv, container, s, FALSE)
            ELSE IF nv.type = Fragment
            THEN IF ov.type = "null"
                 THEN IF nv.children.kind # "array" THEN R(Throw(s), nv)
                      ELSE LET m == mountEach(nv.children.list, 0, container, s)
                           IN R(m.s, [nv EXCEPT !.children.list = m.list])
                 ELSE patchChildren(ov, nv, container, s)
            ELSE IF nv.type \in CompTypes
            THEN IF ov.type = "null"
                 THEN mountComponent(nv, container, anchor, s)
                 ELSE R(s, nv)
            ELSE R(s, nv)

patch(ov0, nv, container, anchor, s0) ==
    IF s0.thrown THEN R(s0, nv)
    ELSE LET differ == ov0.type # "null" /\ ov0.type # nv.type
             s == IF differ THEN unmount(ov0, s0) ELSE s0
             ov == IF differ THEN NullV ELSE ov0
         IN IF s.thrown THEN R(s, nv)
            ELSE IF nv.type \in Tags
            THEN IF ov.type = "null"
                 THEN mountElement(nv, container, anchor, s)
                 ELSE patchElement(ov, nv, s)
            ELSE IF nv.type = Text THEN patchTextual(ov, nv, container, s, TRUE)
            ELSE IF nv.type = Comment THEN patchTextual(ov, nv, container, s, FALSE)
            ELSE IF nv.type = Fragment
            THEN IF ov.type = "null"
                 THEN IF nv.children.kind # "array" THEN R(Throw(s), nv)
                      ELSE LET m == mountEach(nv.children.list, 0, container, s)
                           IN R(m.s, [nv EXCEPT !.children.list = m.list])
                 ELSE patchChildren(ov, nv, container, s)
            ELSE IF nv.type \in CompTypes
            THEN IF ov.type = "null"
                 THEN mountComponent(nv, container, anchor, s)
                 ELSE R(s, nv)
            ELSE R(s, nv)

mountProps(el, pairs, i, s) ==
    IF i > Len(pairs) THEN s
    ELSE mountProps(el, pairs, i + 1, patchProps(s, el, pairs[i][1], Null, pairs[i][2]))

mountElement(vnode, container, anchor, s) ==
    LET c == createElement(s, vnode.type)
        el == c.el
        v1 == [vnode EXCEPT !.el = el]
        m == IF vnode.children.kind = "array"
             THEN mountEach(vnode.children.list, 0, el, c.s)
             ELSE IF notEmpty(vnode.children)
             THEN [s |-> setElementText(c.s, el, vnode.children.text), list |-> <<>>]
             ELSE [s |-> c.s, list |-> <<>>]
        v2 == [v1 EXCEPT !.children.list = m.list]
        s2 == IF vnode.props.def THEN mountProps(el, vnode.props.map, 1, m.s) ELSE m.s
    IN R(insert(s2, el, container, anchor), v2)


RECURSIVE patchNewProps(_, _, _, _, _), patchOldProps(_, _, _, _, _)
\* for (const key in newProps) if (newProps[key] !== oldProps[key]) patchProps(...)
patchNewProps(el, oldProps, pairs, i, s) ==
    IF i > Len(pairs) \/ s.thrown THEN s
    ELSE IF ~oldProps.def THEN Throw(s)   \* oldProps[key] of undefined
    ELSE LET key == pairs[i][1]
             prev == PropGet(oldProps.map, key)
         IN patchNewProps(el, oldProps, pairs, i + 1,
                IF pairs[i][2] # prev THEN patchProps(s, el, key, prev, pairs[i][2])
                ELSE s)

\* for (const key in oldProps) if (!hasOwn(newProps, key)) patchProps(..., null)
patchOldProps(el, newProps, pairs, i, s) ==
    IF i > Len(pairs) \/ s.thrown THEN s
    ELSE IF ~newProps.def THEN Throw(s)   \* Object.hasOwn(undefined, key)
    ELSE patchOldProps(el, newProps, pairs, i + 1,
            IF ~HasProp(newProps.map, pairs[i][1])
            THEN patchProps(s, el, pairs[i][1], pairs[i][2], Null)
            ELSE s)

patchElement(ov, nv, s) ==
    LET el == ov.el
        nv1 == [nv EXCEPT !.el = el]
        s1 == IF nv.props.def THEN patchNewProps(el, ov.props, nv.props.map, 1, s) ELSE s
        s2 == IF ov.props.def THEN patchOldProps(el, nv.props, ov.props.map, 1, s1) ELSE s1
    IN patchChildren(ov, nv1, el, s2)

patchKeyedChildren(ov, nv, container, s) == fastDiff(ov, nv, container, s)

patchChildren(ov, nv, container, s) ==
    IF s.thrown THEN R(s, nv)
    ELSE IF nv.children.kind = "array"
    THEN IF ov.children.kind = "array"
         THEN patchKeyedChildren(ov, nv, container, s)
         ELSE LET m == mountEach(nv.children.list, 0, container,
                                 setElementText(s, container, ""))
              IN R(m.s, [nv EXCEPT !.children.list = m.list])
    ELSE IF notEmpty(nv.children)
    THEN LET s1 == IF ov.children.kind = "array"
                   THEN unmountEach(ov.children.list, s) ELSE s
         IN R(setElementText(s1, container, nv.children.text), nv)
    ELSE IF ov.children.kind = "array"
         THEN R(unmountEach(ov.children.list, s), nv)
         ELSE IF ov.children.kind = "text"
         THEN R(setElementText(s, container, ""), nv)
         ELSE R(s, nv)

-----------------------------------------------------------------------------
(* fastDiff *)

\* the number 1 as a key; every other key but UndefKey is the string it is written as
NumOne == "<number 1>"

\* the property name a key becomes in the plain object keysIndex
PropKey(key) ==
    CASE key = UndefKey -> "undefined"
      [] key = NumOne -> "1"
      [] OTHER -> key

Min2(a, b) == IF a < b THEN a ELSE b
MaxOf(S) == CHOOSE m \in S : \A n \in S : n <= m

\* while (oldVnode && newVnode && oldVnode.key === newVnode.key)
FD_prefix(oldC, newC, i, container, s) ==
    IF ~s.thrown /\ InRange(oldC, i) /\ InRange(newC, i)
       /\ At(oldC, i).key = At(newC, i).key
    THEN LET r == patch(At(oldC, i), At(newC, i), container, NoEl, s)
         IN FD_prefix(oldC, SetAt(newC, i, r.nv), i + 1, container, r.s)
    ELSE [s |-> s, newC |-> newC, i |-> i]

FD_suffix(oldC, newC, oldEndIdx, newEndIdx, commonStartIdx, container, s) ==
    IF ~s.thrown /\ InRange(oldC, oldEndIdx) /\ InRange(newC, newEndIdx)
       /\ Min2(oldEndIdx, newEndIdx) > commonStartIdx
       /\ At(oldC, oldEndIdx).key = At(newC, newEndIdx).key
    THEN LET r == patch(At(oldC, oldEndIdx), At(newC, newEndIdx), container, NoEl, s)
         IN FD_suffix(oldC, SetAt(newC, newEndIdx, r.nv), oldEndIdx - 1,
                      newEndIdx - 1, commonStartIdx, container, r.s)
    ELSE [s |-> s, newC |-> newC, oldEndIdx |-> oldEndIdx, newEndIdx |-> newEndIdx]

\* while (commonStartIdx <= newEndIdx) patch(null, newChildren[commonStartIdx++], ...)
FD_mountTail(newC, i, newEndIdx, container, anchor, s) ==
    IF i > newEndIdx \/ s.thrown THEN R(s, newC)
    ELSE LET r == patch(NullV, At(newC, i), container, anchor, s)
         IN FD_mountTail(SetAt(newC, i, r.nv), i + 1, newEndIdx, container, anchor, r.s)

\* while (commonStartIdx <= oldEndIdx) unmount(oldChildren[commonStartIdx++])
FD_unmountTail(oldC, i, oldEndIdx, s) ==
    IF i > oldEndIdx \/ s.thrown THEN s
    ELSE FD_unmountTail(oldC, i + 1, oldEndIdx, unmount(At(oldC, i), s))

\* for (j = oldStartIdx; j <= oldEndIdx; j++): st is
\* [newC, source, moved, pos, patched]; c is what the loop only reads
FD_old(oldC, j, oldEndIdx, c, st, s) ==
    IF j > oldEndIdx \/ s.thrown THEN [s |-> s, st |-> st]
    ELSE LET oldVnode == At(oldC, j)
         IN IF st.patched > c.needPatchCount
            THEN FD_old(oldC, j + 1, oldEndIdx, c, st, unmount(oldVnode, s))
            ELSE IF PropKey(oldVnode.key) \in DOMAIN c.keysIndex
            THEN LET keyIdx == c.keysIndex[PropKey(oldVnode.key)]
                     r == patch(oldVnode, At(st.newC, keyIdx), c.container, NoEl, s)
                 IN FD_old(oldC, j + 1, oldEndIdx, c,
                        [newC |-> SetAt(st.newC, keyIdx, r.nv),
                         source |-> SetAt(st.source, keyIdx - c.oldStartIdx, j),
                         moved |-> st.moved \/ keyIdx < st.pos,
                         pos |-> IF keyIdx < st.pos THEN st.pos ELSE keyIdx,
                         patched |-> st.patched + 1],
                        r.s)
            ELSE FD_old(oldC, j + 1, oldEndIdx, c, st, unmount(oldVnode, s))

\* for (x = needPatchCount - 1; x >= 0; x--), sq is the source's cursor s
FD_move(x, sq, seq, source, newC, newStartIdx, container, s) ==
    IF x < 0 \/ s.thrown THEN R(s, newC)
    ELSE LET pos == x + newStartIdx
             nextPos == pos + 1
             anchor == IF nextPos < Len(newC) THEN At(newC, nextPos).el ELSE NoEl
         IN IF At(source, x) = -1
            THEN LET r == patch(NullV, At(newC, pos), container, anchor, s)
                 IN FD_move(x - 1, sq, seq, source, SetAt(newC, pos, r.nv),
                            newStartIdx, container, r.s)
            ELSE IF ~(InRange(seq, sq) /\ x = At(seq, sq))
            THEN FD_move(x - 1, sq, seq, source, newC, newStartIdx, container,
                         insert(s, At(newC, pos).el, container, anchor))
            ELSE FD_move(x - 1, sq - 1, seq, source, newC, newStartIdx, container, s)

\* the move loop, entered only when some kept node was found out of order
FD_moveAll(seq, o, needPatchCount, newStartIdx, container) ==
    FD_move(needPatchCount - 1, Len(seq) - 1, seq, o.st.source, o.st.newC,
            newStartIdx, container, o.s)

\* after the loop over the old middle gave o
FD_afterOld(o, needPatchCount, newStartIdx, container) ==
    IF o.st.moved
    THEN FD_moveAll(getSequence(o.st.source), o, needPatchCount, newStartIdx, container)
    ELSE R(o.s, o.st.newC)

\* case 3: neither list is used up
FD_middle(oldChildren, newChildren, commonStartIdx, oldEndIdx, newEndIdx, container, s) ==
    LET needPatchCount == newEndIdx - commonStartIdx + 1
        names == {PropKey(At(newChildren, i).key) : i \in commonStartIdx..newEndIdx}
        keysIndex == [k \in names |->
                        MaxOf({i \in commonStartIdx..newEndIdx :
                                  PropKey(At(newChildren, i).key) = k})]
    IN IF needPatchCount <= 0 THEN R(s, newChildren)
       ELSE FD_afterOld(FD_old(oldChildren, commonStartIdx, oldEndIdx,
                               [needPatchCount |-> needPatchCount,
                                keysIndex |-> keysIndex,
                                oldStartIdx |-> commonStartIdx,
                                container |-> container],
                               [newC |-> newChildren,
                                source |-> [i \in 1..needPatchCount |-> -1],
                                moved |-> FALSE, pos |-> 0, patched |-> 0],
                               s),
                        needPatchCount, commonStartIdx, container)

\* what is left once the common prefix and the common suffix (suf) are done
FD_rest(oldChildren, commonStartIdx, suf, container) ==
    IF suf.s.thrown THEN R(suf.s, suf.newC)
    ELSE IF commonStartIdx > suf.oldEndIdx /\ commonStartIdx <= suf.newEndIdx
    THEN IF suf.newEndIdx + 1 < Len(suf.newC) + 1
         THEN IF InRange(suf.newC, suf.newEndIdx + 1)
              THEN FD_mountTail(suf.newC, commonStartIdx, suf.newEndIdx, container,
                                At(suf.newC, suf.newEndIdx + 1).el, suf.s)
              ELSE R(Throw(suf.s), suf.newC)  \* .el of undefined
         ELSE FD_mountTail(suf.newC, commonStartIdx, suf.newEndIdx, container,
                           NoEl, suf.s)
    ELSE IF commonStartIdx <= suf.oldEndIdx /\ commonStartIdx > suf.newEndIdx
    THEN R(FD_unmountTail(oldChildren, commonStartIdx, suf.oldEndIdx, suf.s), suf.newC)
    ELSE FD_middle(oldChildren, suf.newC, commonStartIdx, suf.oldEndIdx,
                   suf.newEndIdx, container, suf.s)

\* after the common prefix gave pre
FD_afterPrefix(oldChildren, pre, container) ==
    FD_rest(oldChildren, pre.i,
            FD_suffix(oldChildren, pre.newC, Len(oldChildren) - 1,
                      Len(pre.newC) - 1, pre.i, container, pre.s),
            container)

\* the new vnode with its children as the diff left them
FD_done(nv, r) == R(r.s, [nv EXCEPT !.children.list = r.nv])

fastDiff(ov, nv, container, s) ==
    FD_done(nv, FD_afterPrefix(ov.children.list,
                               FD_prefix(ov.children.list, nv.children.list, 0,
                                         container, s),
                               container))

-----------------------------------------------------------------------------
(* The component runtime *)

\* one registered callback is called; fired keeps, for the whole life of the
\* instance, which callbacks were called
callMounted(s, id, cb) ==
    [Logged(s, Ev("mountedCb", id, NoEl, NoEl, cb, Null, Null))
       EXCEPT !.insts[id].fired = Append(@, cb)]

\* the callbacks drained from the back of the list
runMountedReversed(s, id, i) ==
    IF i > Len(s.insts[id].mounted) THEN s
    ELSE runMounted(callMounted(s, id,
                        s.insts[id].mounted[Len(s.insts[id].mounted) + 1 - i]),
                    id, i + 1)

\* instance.mounted.forEach(hook => hook.call(renderContext))
runMounted(s, id, i) ==
    IF i > Len(s.insts[id].mounted) THEN s
    ELSE runMounted(callMounted(s, id, s.insts[id].mounted[i]), id, i + 1)

\* a step of an instance's life that leaves no other trace in the log: the
\* setup call, the patch of the subtree, isMounted = true
Step(s, id, name) == Logged(s, Ev(name, id, NoEl, NoEl, "", Null, Null))

\* the effect body returned normally
EffectEnd(s, id) == Logged(s, Ev("effectEnd", id, NoEl, NoEl, "", Null, Null))

\* a first run that calls the mounted option before the registered callbacks
EffectMountedHookFirst(r, id, def) ==
    IF r.s.thrown THEN r.s
    ELSE EffectEnd([runMounted(Hook(Step([r.s EXCEPT !.insts[id].isMounted = TRUE],
                                         id, "isMounted"), def, "mounted", id),
                               id, 1)
                      EXCEPT !.insts[id].subTree = r.nv], id)

\* the first run, after patch(null, subTree, container, anchor) gave r
EffectMounted(r, id, def) ==
    IF r.s.thrown THEN r.s
    ELSE EffectEnd([Hook(runMounted(Step([r.s EXCEPT !.insts[id].isMounted = TRUE],
                                          id, "isMounted"), id, 1),
                         def, "mounted", id)
                      EXCEPT !.insts[id].subTree = r.nv], id)

\* a later run, after patch(instance.subTree, subTree, container, anchor) gave r
EffectUpdated(r, id, def) ==
    IF r.s.thrown THEN r.s
    ELSE EffectEnd([Hook(r.s, def, "updated", id)
                      EXCEPT !.insts[id].subTree = r.nv], id)

\* an effect body that drops the instance's subtree when render raises
EffectRunDropsSubTree(id, s) ==
    IF s.thrown THEN s
    ELSE LET inst == s.insts[id]
             def == CompDef(inst.type)
             rr == RenderFn(inst, s)
             s0 == Logged(s, Ev("render", id, NoEl, NoEl, "", Null, Null))
         IN IF rr.thrown THEN Throw([s0 EXCEPT !.insts[id].subTree = NullV])
            ELSE IF ~inst.isMounted
            THEN EffectMounted(patch(NullV, rr.tree, inst.container, inst.anchor,
                                     Step(Hook(s0, def, "beforeMount", id),
                                          id, "patchSubTree")), id, def)
            ELSE EffectUpdated(patch(inst.subTree, rr.tree, inst.container,
                                     inst.anchor,
                                     Step(Hook(s0, def, "beforeUpdate", id),
                                          id, "patchSubTree")),
                               id, def)

\* the body handed to effect(): first run mounts, later runs patch
EffectRun(id, s) ==
    IF s.thrown THEN s
    ELSE LET inst == s.insts[id]
             def == CompDef(inst.type)
             rr == RenderFn(inst, s)
             s0 == Logged(s, Ev("render", id, NoEl, NoEl, "", Null, Null))
         IN IF rr.thrown THEN Throw(s0)
            ELSE IF ~inst.isMounted
            THEN EffectMounted(patch(NullV, rr.tree, inst.container, inst.anchor,
                                     Step(Hook(s0, def, "beforeMount", id),
                                          id, "patchSubTree")), id, def)
            ELSE EffectUpdated(patch(inst.subTree, rr.tree, inst.container,
                                     inst.anchor,
                                     Step(Hook(s0, def, "beforeUpdate", id),
                                          id, "patchSubTree")),
                               id, def)

\* after setup returned: release the register, created hook, first effect run
MC_afterSetup(vnode, def, id, s) ==
    R(EffectRun(id, [Hook([s EXCEPT !.cur = 0], def, "created", id)
                       EXCEPT !.insts[id].effect = TRUE]),
      [vnode EXCEPT !.component = id])

\* setCurrentInstance(instance) and the setup call, when there is a setup
MC_setup(vnode, def, id, s) ==
    IF def.setup = "none" THEN MC_afterSetup(vnode, def, id, s)
    ELSE IF def.setup = "throws"
    THEN R(Throw(registerAll(Step([s EXCEPT !.cur = id], id, "setup"),
                             def.setupCbs)), vnode)
    ELSE MC_afterSetup(vnode, def, id,
                       registerAll(Step([s EXCEPT !.cur = id], id, "setup"),
                                   def.setupCbs))

\* the instance is created from the resolved props rp
MC_instance(vnode, container, anchor, def, id, rp, s) ==
    IF rp.thrown THEN R(Throw(s), vnode)
    ELSE MC_setup(vnode, def, id,
            [s EXCEPT !.insts = Append(@,
                [type |-> vnode.type, attrs |-> rp.attrs,
                 props |-> rp.props, isMounted |-> FALSE,
                 subTree |-> NullV, slots |-> vnode.children,
                 mounted |-> <<>>, fired |-> <<>>, unmounted |-> FALSE,
                 container |-> container,
                 anchor |-> anchor, effect |-> FALSE])])

mountComponent(vnode, container, anchor, s) ==
    MC_instance(vnode, container, anchor, CompDef(vnode.type), Len(s.insts) + 1,
                resolveProps(CompDef(vnode.type).propsOption, vnode.props),
                Hook(s, CompDef(vnode.type), "beforeCreate", Len(s.insts) + 1))

\* render(vnode, container) with a vnode; the caller stores container._vnode
\* unless the call raised
render(ov, vnode, s) == patch(ov, vnode, Root, NoEl, s)

\* render(null, container)
renderNull(ov, s) == IF ov.type # "null" THEN unmount(ov, s) ELSE s

-----------------------------------------------------------------------------
(* The vnode trees handed to render *)

KeyOf == <<"a", "b", "c", "d", "e", "f">>

IsDistinct(seq) == \A i, j \in DOMAIN seq : i # j => seq[i] # seq[j]
ListsOver(nkeys, maxlen) ==
    UNION {{l \in [1..n -> {KeyOf[i] : i \in 1..nkeys}] : IsDistinct(l)} :
              n \in 0..maxlen}
KeyLists == ListsOver(NumKeys, MaxKids)
\* the keyed lists the long-running renderer is handed
RunLists == { <<>>, <<"a">>, <<"a", "b">>, <<"b", "a">> }

Li(key) == VNode("li", key, NoProps, NoChildren)
KeyedDiv(keys) ==
    VNode("div", UndefKey, NoProps, ArrayChildren([i \in DOMAIN keys |-> Li(keys[i])]))

TextV(key, t) == VNode(Text, key, NoProps, TextChildren(t))
CommentV(key, t) == VNode(Comment, key, NoProps, TextChildren(t))

OtherTrees ==
    { VNode("div", UndefKey, Props(<< <<"id", "x">> >>), TextChildren("hi")),
      VNode("div", UndefKey, Props(<< <<"id", "x">> >>), TextChildren("bye")),
      VNode("div", UndefKey, Props(<< <<"class", "k">> >>), NoChildren),
      VNode("span", UndefKey, Props(<< <<"id", "x">> >>), TextChildren("hi")),
      TextV(UndefKey, "hello"),
      TextV(UndefKey, "world"),
      CommentV(UndefKey, "note"),
      VNode(Fragment, UndefKey, NoProps,
            ArrayChildren(<< TextV("t", "one"), VNode("p", "p", NoProps, NoChildren) >>)),
      VNode("div", UndefKey, NoProps,
            ArrayChildren(<< VNode("p", UndefKey, NoProps, NoChildren),
                             VNode("span", UndefKey, NoProps, NoChildren) >>)),
      VNode("div", UndefKey, NoProps,
            ArrayChildren(<< VNode("span", UndefKey, NoProps, TextChildren("s")),
                             VNode("span", UndefKey, NoProps, NoChildren) >>)),
      VNode("div", UndefKey, NoProps,
            ArrayChildren(<< TextV("t", "one"), CommentV("c", "note"),
                             VNode(Fragment, "f", NoProps,
                                   ArrayChildren(<< Li("a"), Li("b") >>)) >>)),
      VNode("MyComponent", UndefKey, Props(<< <<"title", "t1">> >>), SlotChildren),
      VNode("MyComponent", UndefKey, Props(<< <<"title", "t2">> >>), SlotChildren),
      VNode("Counter", UndefKey, NoProps, NoChildren),
      VNode("Parent", UndefKey, NoProps, NoChildren),
      VNode("Broken", UndefKey, NoProps, NoChildren),
      VNode("FuncComponent", UndefKey, NoProps, NoChildren) }

Trees == {KeyedDiv(l) : l \in RunLists} \cup OtherTrees

\* how many instances mounting a vnode tree creates at most
RECURSIVE Cost(_), CostAll(_)
CostAll(list) == IF list = <<>> THEN 0 ELSE Cost(Head(list)) + CostAll(Tail(list))
Cost(v) ==
    CASE v.type = "Parent" -> 2
      [] v.type \in CompTypes -> 1
      [] OTHER -> CostAll(v.children.list)

-----------------------------------------------------------------------------
(* The job scheduler: queue, isFlushing, p and queueJob *)

NumJobs == 3
JobOf == <<"j1", "j2", "j3", "j4">>
Jobs == {JobOf[i] : i \in 1..NumJobs}
NoJob == "<none>"

\* queue is the Set, in insertion order; pending counts the callbacks handed to
\* p.then that have not run yet; pos is 0 while no such callback is running and
\* otherwise the index of the element queue.forEach visits next. The other
\* fields are history: asked are the jobs handed to queueJob by callers outside a
\* flush since the call that scheduled the flush, runs counts the executions of
\* each job in that flush, owed are the jobs handed to queueJob that have not
\* started an execution since
SchedIdle == [queue |-> <<>>, isFlushing |-> FALSE, pending |-> 0, pos |-> 0,
              asked |-> {}, runs |-> [j \in {JobOf[i] : i \in 1..NumJobs} |-> 0],
              owed |-> {}]

\* queueJob(job): queue.add(job), and a flush is scheduled unless isFlushing
queueJob(job, sc) ==
    LET added == [sc EXCEPT
                     !.queue = IF \E i \in DOMAIN sc.queue : sc.queue[i] = job
                               THEN @ ELSE Append(@, job),
                     !.owed = @ \cup {job}]
    IN IF ~sc.isFlushing
       THEN [added EXCEPT !.isFlushing = TRUE, !.pending = @ + 1]
       ELSE added

\* finally { isFlushing = false; queue.clear() }, which ends the callback
flushFinally(sc) == [sc EXCEPT !.isFlushing = FALSE, !.queue = <<>>, !.pos = 0]

-----------------------------------------------------------------------------
(* The state machine *)

World == [host |-> host, insts |-> insts, cur |-> currentInstance,
          count |-> count, log |-> <<>>, thrown |-> FALSE]

\* what the last call was. fresh: it was a render that returned, on an empty
\* container. after says what the call before this one was: "freshRender" (a render
\* that returned, on an empty container), "render" (any other render that
\* returned) or "other"
Idle == [op |-> "idle", thrown |-> FALSE, ov |-> NullV, arg |-> NullV,
         fresh |-> FALSE, after |-> "other", caught |-> 0]

\* a call can be made: the caller is between calls and has not given up
Ready == last.op = "idle" /\ last.caught <= MaxCaught

Caught(s) == IF s.thrown THEN last.caught + 1 ELSE last.caught

Init ==
    /\ host = (Root :> HostNode("element", "root", ""))
    /\ cvnode = NullV
    /\ insts = <<>>
    /\ currentInstance = 0
    /\ count = 0
    /\ log = <<>>
    /\ sched = SchedIdle
    /\ last = Idle

Publish(s) ==
    /\ host' = s.host
    /\ insts' = s.insts
    /\ currentInstance' = s.cur
    /\ count' = s.count
    /\ log' = s.log

\* render(vnode, container) with a new vnode tree
Render(v) ==
    /\ Ready
    /\ Len(insts) + Cost(v) <= MaxInst
    /\ LET r == render(cvnode, v, World)
       IN /\ Publish(r.s)
          /\ cvnode' = IF r.s.thrown THEN cvnode ELSE r.nv
          /\ sched' = sched
          /\ last' = [op |-> "render", thrown |-> r.s.thrown, ov |-> cvnode,
                      arg |-> v,
                      fresh |-> cvnode = NullV /\ host[Root].kids = <<>>
                                /\ ~r.s.thrown,
                      after |-> last.after, caught |-> Caught(r.s)]

\* render(v, container) again with the vnode object the container holds
RenderSame ==
    /\ Ready
    /\ cvnode # NullV
    /\ LET r == render(cvnode, cvnode, World)
       IN /\ Publish(r.s)
          /\ cvnode' = IF r.s.thrown THEN cvnode ELSE r.nv
          /\ sched' = sched
          /\ last' = [op |-> "renderSame", thrown |-> r.s.thrown, ov |-> cvnode,
                      arg |-> cvnode, fresh |-> FALSE, after |-> last.after,
                      caught |-> Caught(r.s)]

\* render(null, container)
RenderNull ==
    /\ Ready
    /\ LET s == renderNull(cvnode, World)
       IN /\ Publish(s)
          /\ cvnode' = IF s.thrown THEN cvnode ELSE NullV
          /\ sched' = sched
          /\ last' = [op |-> "renderNull", thrown |-> s.thrown, ov |-> cvnode,
                      arg |-> NullV, fresh |-> FALSE, after |-> last.after,
                      caught |-> Caught(s)]

\* the effects subscribed to the reactive cell re-run, in creation order
RECURSIVE trigger(_, _)
trigger(s, i) ==
    IF i > Len(s.insts) \/ s.thrown THEN s
    ELSE trigger(IF s.insts[i].effect /\ ReadsCount(s.insts[i].type)
                 THEN EffectRun(i, s) ELSE s, i + 1)

\* count.value = n
SetCount(n) ==
    /\ Ready
    /\ n # count
    /\ LET s == trigger([World EXCEPT !.count = n], 1)
       IN /\ Publish(s)
          /\ cvnode' = cvnode
          /\ sched' = sched
          /\ last' = [op |-> "setCount", thrown |-> s.thrown, ov |-> cvnode,
                      arg |-> NullV, fresh |-> FALSE, after |-> last.after,
                      caught |-> Caught(s)]

\* onMounted(cb) called from outside any setup
OnMountedOutside ==
    /\ Ready
    /\ currentInstance # 0 => Len(insts[currentInstance].mounted) < MaxMounted
    /\ LET s == onMounted(World, "cbX")
       IN /\ Publish(s)
          /\ cvnode' = cvnode
          /\ sched' = sched
          /\ last' = [op |-> "onMounted", thrown |-> s.thrown, ov |-> cvnode,
                      arg |-> NullV, fresh |-> FALSE, after |-> last.after,
                      caught |-> Caught(s)]

-----------------------------------------------------------------------------
(* Between calls: what nothing references any more is garbage, and node and  *)
(* instance identities are only ever compared with each other, so the live   *)
(* ones are renamed in the order the vnode trees and the document reach them *)

RECURSIVE InstRefs(_), InstRefsAll(_)
InstRefs(v) ==
    (IF v.component # 0 THEN {v.component} ELSE {}) \cup InstRefsAll(v.children.list)
InstRefsAll(list) ==
    IF list = <<>> THEN {} ELSE InstRefs(Head(list)) \cup InstRefsAll(Tail(list))

RECURSIVE InstClosure(_)
InstClosure(S) ==
    LET T == S \cup UNION {InstRefs(insts[i].subTree) : i \in S}
    IN IF T = S THEN S ELSE InstClosure(T)

\* reachable from container._vnode or the register, or still subscribed to
\* the reactive cell
LiveInsts ==
    InstClosure(InstRefs(cvnode)
                \cup ({currentInstance} \ {0})
                \cup {i \in DOMAIN insts : insts[i].effect /\ ReadsCount(insts[i].type)})

RECURSIVE ElRefSeq(_), ElRefSeqAll(_)
ElRefSeq(v) ==
    (IF v.el # NoEl THEN <<v.el>> ELSE <<>>) \o ElRefSeqAll(v.children.list)
ElRefSeqAll(list) ==
    IF list = <<>> THEN <<>> ELSE ElRefSeq(Head(list)) \o ElRefSeqAll(Tail(list))

RECURSIVE InstElRefs(_, _)
InstElRefs(live, i) ==
    IF i > Len(insts) THEN <<>>
    ELSE (IF i \in live
          THEN (IF insts[i].container # NoEl THEN <<insts[i].container>> ELSE <<>>)
               \o (IF insts[i].anchor # NoEl THEN <<insts[i].anchor>> ELSE <<>>)
               \o ElRefSeq(insts[i].subTree)
          ELSE <<>>)
         \o InstElRefs(live, i + 1)

RECURSIVE TopOf(_), Preorder(_), PreorderAll(_)
TopOf(id) == IF host[id].parent = NoEl THEN id ELSE TopOf(host[id].parent)
Preorder(id) == <<id>> \o PreorderAll(host[id].kids)
PreorderAll(kids) ==
    IF kids = <<>> THEN <<>> ELSE Preorder(Head(kids)) \o PreorderAll(Tail(kids))

Range(seq) == {seq[i] : i \in DOMAIN seq}

RECURSIVE NodeOrder(_, _)
NodeOrder(refs, acc) ==
    IF refs = <<>> THEN acc
    ELSE NodeOrder(Tail(refs),
                   IF Head(refs) \in Range(acc) THEN acc
                   ELSE acc \o Preorder(TopOf(Head(refs))))

RECURSIVE RenameV(_, _, _), RenameAll(_, _, _)
RenameV(v, em, im) ==
    [v EXCEPT !.el = IF @ = NoEl THEN NoEl ELSE em[@],
              !.component = IF @ = 0 THEN 0 ELSE im[@],
              !.children.list = RenameAll(@, em, im)]
RenameAll(list, em, im) == [i \in DOMAIN list |-> RenameV(list[i], em, im)]

Collect ==
    /\ last.op # "idle"
    /\ LET live == LiveInsts
           im == [i \in live |-> Cardinality({j \in live : j <= i})]
           order == NodeOrder(<<Root>> \o ElRefSeq(cvnode) \o InstElRefs(live, 1), <<>>)
           em == [id \in Range(order) |-> IndexOf(order, id) - 1]
           E(id) == IF id = NoEl THEN NoEl ELSE em[id]
           kept == SelectSeq([i \in DOMAIN insts |-> i], LAMBDA i : i \in live)
       IN /\ host' = [n \in 0..(Len(order) - 1) |->
                        [host[order[n + 1]] EXCEPT
                            !.parent = E(@),
                            !.kids = [k \in DOMAIN @ |-> em[@[k]]]]]
          /\ cvnode' = RenameV(cvnode, em, im)
          /\ insts' = [n \in DOMAIN kept |->
                        [insts[kept[n]] EXCEPT
                            !.subTree = RenameV(@, em, im),
                            !.container = E(@),
                            !.anchor = E(@)]]
          /\ currentInstance' = IF currentInstance = 0 THEN 0 ELSE im[currentInstance]
    /\ count' = count
    /\ log' = <<>>
    /\ sched' = sched
    /\ last' = [Idle EXCEPT
                   !.after = IF last.op = "render" /\ ~last.thrown
                             THEN IF last.fresh THEN "freshRender" ELSE "render"
                             ELSE "other",
                   !.caught = last.caught]

Next ==
    \/ \E v \in Trees : Render(v)
    \/ RenderSame
    \/ RenderNull
    \/ \E n \in 0..1 : SetCount(n)
    \/ OnMountedOutside
    \/ Collect

Spec == Init /\ [][Next]_vars

-----------------------------------------------------------------------------
(* The keyed reconciliation on its own: a keyed list is on the page, and one *)
(* render reconciles it against another                                      *)

Blank == [host |-> (Root :> HostNode("element", "root", "")), insts |-> <<>>,
          cur |-> 0, count |-> 0, log |-> <<>>, thrown |-> FALSE]

InitDiff ==
    \E l \in KeyLists :
        LET r == render(NullV, KeyedDiv(l), Blank)
        IN /\ host = r.s.host
           /\ cvnode = r.nv
           /\ insts = <<>>
           /\ currentInstance = 0
           /\ count = 0
           /\ log = <<>>
           /\ sched = SchedIdle
           /\ last = Idle

NextDiff == \E l \in KeyLists : Render(KeyedDiv(l))

SpecDiff == InitDiff /\ [][NextDiff]_vars

-----------------------------------------------------------------------------
(* What is on the page, and what a vnode tree says should be there *)

\* the document below a node, identities forgotten
RECURSIVE HostShape(_), HostShapes(_)
HostShape(id) ==
    [kind |-> host[id].kind, tag |-> host[id].tag, text |-> host[id].text,
     kids |-> HostShapes(host[id].kids)]
HostShapes(ids) ==
    IF ids = <<>> THEN <<>> ELSE <<HostShape(Head(ids))>> \o HostShapes(Tail(ids))

\* the tree a function component returns
FnTree(type) ==
    VNode("div", "the-func-component", NoProps, ArrayChildren(<<
        VNode("p", "the-func-component-child-2", NoProps, TextChildren("content")),
        VNode(Text, "the-func-component-child-3", NoProps, TextChildren("#")) >>))

\* the document nodes a vnode stands for: one per element, text and comment,
\* a fragment's children in place of the fragment, a component's rendered
\* tree in place of the component
RECURSIVE VShape(_), VShapes(_)
VShape(v) ==
    CASE v.type \in Tags ->
            << [kind |-> "element", tag |-> v.type, text |-> v.children.text,
                kids |-> VShapes(v.children.list)] >>
      [] v.type = Text ->
            << [kind |-> "text", tag |-> "", text |-> v.children.text, kids |-> <<>>] >>
      [] v.type = Comment ->
            << [kind |-> "comment", tag |-> "", text |-> v.children.text, kids |-> <<>>] >>
      [] v.type = Fragment -> VShapes(v.children.list)
      [] v.type \in CompTypes ->
            LET def == CompDef(v.type)
                rp == resolveProps(def.propsOption, v.props)
                inst == [type |-> v.type, props |-> rp.props]
            IN VShape(RenderFn(inst, [count |-> count]).tree)
      [] v.type \in FnTypes -> VShape(FnTree(v.type))
      [] OTHER -> <<>>
VShapes(list) ==
    IF list = <<>> THEN <<>> ELSE VShape(Head(list)) \o VShapes(Tail(list))

\* the host calls of the last operation that change the document
Mutating == {"createElement", "createTextNode", "createComment", "insert",
             "setElementText", "patchProps", "removeChild", "textContent"}
Calls(ops) == SelectSeq(log, LAMBDA e : e.op \in ops)

\* C1: after render(v, container) returns, for any well-formed v and whatever
\* was rendered before, the document below the container is structurally the
\* tree v describes.
C1_HostMatchesVnode ==
    (last.op = "render" /\ ~last.thrown) => HostShapes(host[Root].kids) = VShape(last.arg)

\* C2: render(null, container), after any sequence of renders and component
\* re-renders, returns having removed every document node the renderer put
\* under the container.
C2_RenderNullEmpties ==
    last.op = "renderNull" => (~last.thrown /\ host[Root].kids = <<>>)

\* C3: render(v, container) on an empty container followed by
\* render(null, container) returns with no document node left under the
\* container and container._vnode null.
C3_MountThenUnmount ==
    (last.op = "renderNull" /\ last.after = "freshRender")
        => (~last.thrown /\ host[Root].kids = <<>> /\ cvnode = NullV)

\* a tree with nested components and a text node was mounted on the empty
\* container and has just been taken down
C3_Witness ==
    /\ last.op = "renderNull" /\ last.after = "freshRender"
    /\ last.ov.type = "Parent"
    /\ Len(Calls({"removeChild"})) >= 2

\* C4: render(v, container) twice in succession with the same vnode object
\* makes no host call that changes the document the second time, text
\* children included.
C4_SameVnodeNoMutation ==
    (last.op = "renderSame" /\ last.after \in {"render", "freshRender"})
        => Calls(Mutating) = <<>>

\* C5: for every component that completes mounting, the callbacks its setup
\* registered with onMounted are called exactly once each over the life of
\* the instance, in registration order, after the subtree was inserted into
\* the container and before the first effect run returns.
C5_MountedCallbacksOnce ==
    /\ \A i \in DOMAIN insts :
          insts[i].isMounted => insts[i].fired = CompDef(insts[i].type).setupCbs
    /\ \A k \in DOMAIN log :
          log[k].op = "mountedCb" =>
            LET i == log[k].el
            IN /\ \E j \in 1..(k - 1) :
                     /\ log[j].op = "insert"
                     /\ log[j].el = insts[i].subTree.el
                     /\ log[j].parent = insts[i].container
               /\ \A j \in 1..(k - 1) : ~(log[j].op = "effectEnd" /\ log[j].el = i)
               /\ \E m \in (k + 1)..Len(log) :
                     log[m].op = "effectEnd" /\ log[m].el = i

\* a mounted component whose setup registered two callbacks has just
\* re-rendered because the reactive cell changed
C5_Witness ==
    /\ last.op = "setCount"
    /\ \E i \in DOMAIN insts :
          /\ insts[i].isMounted
          /\ Len(CompDef(insts[i].type).setupCbs) = 2
          /\ \E k \in DOMAIN log : log[k].op = "effectEnd" /\ log[k].el = i

\* C6: onMounted called while no setup is executing adds the callback to no
\* instance's list and reports a diagnostic.
C6_OutsideSetupNoOp ==
    [][last'.op = "onMounted" =>
          /\ insts' = insts
          /\ \E k \in DOMAIN log' : log'[k].op = "console.error"]_vars

\* C7: when a component is rendered again with a value of a declared prop
\* that differs, hasPropsChanged is true, instance.props holds the new value
\* afterwards and the component's effect ran exactly once.
C7_PropChangeRerenders ==
    (/\ last.op = "render" /\ ~last.thrown
     /\ last.ov.type = "MyComponent" /\ last.arg.type = "MyComponent"
     /\ last.ov.component # 0
     /\ PropGet(last.ov.props.map, "title") # PropGet(last.arg.props.map, "title"))
        => LET i == last.ov.component
           IN /\ hasPropsChanged(last.ov.props, last.arg.props)
              /\ PropGet(insts[i].props, "title") = PropGet(last.arg.props.map, "title")
              /\ Len(SelectSeq(log, LAMBDA e : e.op = "render" /\ e.el = i)) = 1

-----------------------------------------------------------------------------
(* What one reconciliation of two keyed lists did *)

Keys(v) == [i \in DOMAIN v.children.list |-> v.children.list[i].key]
Els(v) == [i \in DOMAIN v.children.list |-> v.children.list[i].el]
OldKeys == Keys(last.ov)
NewKeys == Keys(last.arg)

\* the nodes the last operation created / removed / inserted, in call order
Created == [k \in DOMAIN Calls({"createElement"}) |-> Calls({"createElement"})[k].el]
Removed == [k \in DOMAIN Calls({"removeChild"}) |-> Calls({"removeChild"})[k].el]
Inserts == Calls({"insert"})

\* insertions of a node that was already on the page
Moves == Len(SelectSeq(Inserts, LAMBDA e : e.el \in Range(Els(last.ov))))

IsProperPrefix(a, b) == Len(a) < Len(b) /\ SubSeq(b, 1, Len(a)) = a

\* new is old with one more key at position p
InsertedAt(old, new, p) ==
    /\ Len(new) = Len(old) + 1
    /\ p \in DOMAIN new
    /\ SubSeq(new, 1, p - 1) \o SubSeq(new, p + 1, Len(new)) = old

\* for the keys present in both lists, taken in new order, their old positions
MatchedOld(old, new) ==
    LET kept == SelectSeq(new, LAMBDA k : k \in Range(old))
    IN [i \in DOMAIN kept |-> IndexOf(old, kept[i])]

\* the length of a longest strictly increasing subsequence, by enumeration
LisLen(seq) ==
    LET Inc(S) == \A i, j \in S : i < j => seq[i] < seq[j]
        sizes == {Cardinality(S) : S \in {T \in SUBSET DOMAIN seq : Inc(T)}}
    IN CHOOSE n \in sizes : \A m \in sizes : m <= n

\* C8: when the old keyed list is a proper prefix of the new one (the empty
\* list included) the extra nodes are created and appended in order; when the
\* new list is empty every old node is unmounted.
C8_AppendAndClear ==
    last.op = "render" =>
        LET div == last.ov.el
        IN /\ IsProperPrefix(OldKeys, NewKeys) =>
                /\ ~last.thrown
                /\ Len(Created) = Len(NewKeys) - Len(OldKeys)
                /\ Removed = <<>>
                /\ host[div].kids = Els(last.ov) \o Created
           /\ (NewKeys = <<>> /\ OldKeys # <<>>) =>
                /\ ~last.thrown
                /\ Created = <<>>
                /\ Len(Removed) = Len(OldKeys)
                /\ Range(Removed) = Range(Els(last.ov))
                /\ host[div].kids = <<>>

\* C9: when the new keyed list is the old one with one new key between a
\* common prefix and a common suffix ([a,b,d] against [a,b,c,d]), the new node
\* is mounted exactly once, immediately before the node that follows it, and
\* nothing is moved or unmounted.
C9_InsertInMiddle ==
    last.op = "render" =>
        \A p \in 2..(Len(NewKeys) - 1) :
            InsertedAt(OldKeys, NewKeys, p) =>
                /\ ~last.thrown
                /\ Len(Created) = 1
                /\ Len(Inserts) = 1
                /\ Inserts[1].el = Created[1]
                /\ Inserts[1].parent = last.ov.el
                /\ Inserts[1].anchor = Els(last.ov)[p]
                /\ Removed = <<>>

\* C10: a keyed diff moves at most n - L nodes, n the number of keys in both
\* lists and L the length of a longest increasing subsequence of their old
\* positions taken in new order; [a,b,c,d] against [a,c,b,d] is exactly one
\* move and [a,b,c,d] against [d,c,b,a] exactly three.
C10_MoveBound ==
    (last.op = "render" /\ ~last.thrown) =>
        LET src == MatchedOld(OldKeys, NewKeys)
        IN /\ Moves <= Len(src) - LisLen(src)
           /\ (OldKeys = <<"a", "b", "c", "d">> /\ NewKeys = <<"a", "c", "b", "d">>)
                 => Moves = 1
           /\ (OldKeys = <<"a", "b", "c", "d">> /\ NewKeys = <<"d", "c", "b", "a">>)
                 => Moves = 3

\* C11: in a keyed reconciliation with unique keys every new child whose key
\* the old list lacks is inserted exactly once (its mount), every old child
\* whose key the new list lacks is removed exactly once, and no child whose
\* key is in both lists is removed.
C11_AddedAndRemovedOnce ==
    last.op = "render" =>
        LET added == {k \in Range(NewKeys) : k \notin Range(OldKeys)}
            goneEls == {Els(last.ov)[i] : i \in {j \in DOMAIN OldKeys :
                                                   OldKeys[j] \notin Range(NewKeys)}}
        IN /\ Len(Created) = Cardinality(added)
           /\ \A k \in DOMAIN Created :
                 Len(SelectSeq(Inserts, LAMBDA e : e.el = Created[k])) = 1
           /\ Len(Removed) = Cardinality(goneEls)
           /\ Range(Removed) = goneEls

\* every node the last operation created, of any kind
CreatedNodes ==
    {e.el : e \in Range(Calls({"createElement", "createTextNode", "createComment"}))}

-----------------------------------------------------------------------------
(* patchComponent, which no path of patch reaches, applied on its own to a   *)
(* mounted component vnode and a new vnode of the same type                  *)

\* the props a component's render function reads
ReadsProp(type, key) == type = "MyComponent" /\ key = "title"

\* props[key] = value on the shallowReactive props: the write is recorded, and
\* a changed value re-runs the effect that read the key
PC_write(id, key, value, s) ==
    IF (~HasProp(s.insts[id].props, key) \/ PropGet(s.insts[id].props, key) # value)
       /\ s.insts[id].effect /\ ReadsProp(s.insts[id].type, key)
    THEN EffectRun(id, [Logged(s, Ev("props.set", id, NoEl, NoEl, key,
                                     PropGet(s.insts[id].props, key), value))
                          EXCEPT !.insts[id].props = PropSet(@, key, value)])
    ELSE [Logged(s, Ev("props.set", id, NoEl, NoEl, key,
                       PropGet(s.insts[id].props, key), value))
            EXCEPT !.insts[id].props = PropSet(@, key, value)]

\* for (const key in nextProps) props[key] = nextProps[key]
RECURSIVE PC_assign(_, _, _, _)
PC_assign(id, nextProps, i, s) ==
    IF i > Len(nextProps) \/ s.thrown THEN s
    ELSE PC_assign(id, nextProps, i + 1,
                   PC_write(id, nextProps[i][1], nextProps[i][2], s))

\* the two deleting loops: `!key in nextProps` asks whether nextProps has a
\* key named "false", for every key alike; nv.attrs is undefined, so the
\* first attrs loop has nothing to copy and the second raises at its first key
PC_prune(id, nextProps, s) ==
    IF s.thrown THEN s
    ELSE IF s.insts[id].attrs # <<>>
    THEN Throw(IF HasProp(nextProps, "false")
               THEN [s EXCEPT !.insts[id].props = <<>>] ELSE s)
    ELSE IF HasProp(nextProps, "false")
    THEN [s EXCEPT !.insts[id].props = <<>>] ELSE s

\* after resolveProps(nv.type.props, nv.props) gave rp
PC_update(id, rp, s) ==
    IF rp.thrown THEN Throw(s)
    ELSE PC_prune(id, rp.props, PC_assign(id, rp.props, 1, s))

patchComponent(ov, nv, container, anchor, s) ==
    IF s.thrown THEN R(s, nv)
    ELSE IF ov.component = 0
    THEN R(Throw(s), nv)   \* const { props } = undefined
    ELSE IF hasPropsChanged(ov.props, nv.props)
    THEN R(PC_update(ov.component,
                     resolveProps(CompDef(nv.type).propsOption, nv.props), s),
           [nv EXCEPT !.component = ov.component])
    ELSE R(s, [nv EXCEPT !.component = ov.component])

\* the component vnodes of the patchComponent runs
PCProps(title, id) ==
    IF title = Null /\ id = Null THEN NoProps
    ELSE Props((IF title = Null THEN <<>> ELSE << <<"title", title>> >>)
               \o (IF id = Null THEN <<>> ELSE << <<"id", id>> >>))
PCTrees ==
    {VNode("MyComponent", UndefKey, PCProps(t, i), SlotChildren) :
        t \in {"t1", "t2", "t3", Null}, i \in {"x", "y", Null}}
    \cup {VNode("Counter", UndefKey, NoProps, SlotChildren)}

\* a component vnode has been rendered into the empty container
InitPC ==
    \E v \in PCTrees :
        LET r == render(NullV, v, Blank)
        IN /\ ~r.s.thrown
           /\ host = r.s.host
           /\ cvnode = r.nv
           /\ insts = r.s.insts
           /\ currentInstance = r.s.cur
           /\ count = 0
           /\ log = <<>>
           /\ sched = SchedIdle
           /\ last = Idle

\* patchComponent(container._vnode, nv, container, null); before keeps the
\* instance as it was
PatchComponent(nv) ==
    /\ ~last.thrown
    /\ nv.type = cvnode.type
    /\ LET r == patchComponent(cvnode, nv, Root, NoEl, World)
       IN /\ Publish(r.s)
          /\ cvnode' = IF r.s.thrown THEN cvnode ELSE r.nv
          /\ sched' = sched
          /\ last' = [op |-> "patchComponent", thrown |-> r.s.thrown,
                      ov |-> cvnode, arg |-> nv, fresh |-> FALSE,
                      after |-> "other", caught |-> 0,
                      before |-> insts[cvnode.component]]

NextPC == \E nv \in PCTrees : PatchComponent(nv)

SpecPC == InitPC /\ [][NextPC]_vars

\* the same names with the same values
SameProps(a, b) ==
    /\ Len(a.map) = Len(b.map)
    /\ Range(a.map) = Range(b.map)

\* C13: patchComponent applied to an old and a new component vnode whose
\* props did not change (hasPropsChanged is false) writes nothing to and
\* deletes nothing from instance.props and instance.attrs, and the
\* component's effect does not run.
C13_UnchangedPropsNoWrite ==
    (last.op = "patchComponent" /\ SameProps(last.ov.props, last.arg.props)) =>
        /\ ~hasPropsChanged(last.ov.props, last.arg.props)
        /\ ~last.thrown
        /\ insts[last.ov.component].props = last.before.props
        /\ insts[last.ov.component].attrs = last.before.attrs
        /\ Calls({"props.set", "render"}) = <<>>

\* a component with a declared prop and an attribute was patched with the
\* same two values, after an earlier patch had changed its title
C13_Witness ==
    /\ last.op = "patchComponent"
    /\ SameProps(last.ov.props, last.arg.props)
    /\ Len(last.arg.props.map) = 2
    /\ PropGet(last.before.props, "title") = "t2"
    /\ last.before.attrs # <<>>

\* C14: after a vnode subtree has been unmounted, no component vnode in it
\* still references its instance. last.ov is the tree render(null, container)
\* unmounted, as the call left it.
C14_UnmountClearsComponent ==
    (last.op = "renderNull" /\ ~last.thrown) => InstRefs(last.ov) = {}

\* C15: patch(null, v, container) with v a function component mounts the tree
\* the function returns into the container; a function-typed vnode never
\* renders nothing.
C15_FunctionComponentMounts ==
    (last.op = "render" /\ last.ov.type = "null" /\ last.arg.type \in FnTypes) =>
        /\ ~last.thrown
        /\ host[Root].kids # <<>>
        /\ HostShapes(host[Root].kids) = VShape(FnTree(last.arg.type))

\* C16: for any old and new lists of keyed element vnodes with unique keys,
\* after the keyed diff the container's host children are exactly the new
\* children's host nodes, in new-list order.
C16_HostOrderIsNewOrder ==
    last.op = "render" =>
        /\ ~last.thrown
        /\ \A i \in DOMAIN NewKeys : Els(cvnode)[i] # NoEl
        /\ host[last.ov.el].kids = Els(cvnode)

\* C17: in one diff pass over lists with unique keys every new child is
\* handled exactly once: patched against the old child with the same key
\* (whose host node it takes over) or mounted once (a node created by this
\* pass), never both and never neither, whether or not anything moved.
C17_EachNewChildHandledOnce ==
    (last.op = "render" /\ ~last.thrown) =>
        /\ \A i \in DOMAIN NewKeys :
              IF NewKeys[i] \in Range(OldKeys)
              THEN Els(cvnode)[i] = Els(last.ov)[IndexOf(OldKeys, NewKeys[i])]
              ELSE Els(cvnode)[i] \in Range(Created)
        /\ Len(Created) = Cardinality({k \in Range(NewKeys) : k \notin Range(OldKeys)})
        /\ \A j, k \in DOMAIN Created : Created[j] = Created[k] => j = k

\* C20: when patch is applied to an old and a new component vnode of the same
\* type, the new vnode's component is the old vnode's instance afterwards.
C20_ComponentCarriedOver ==
    (/\ last.op = "render" /\ ~last.thrown
     /\ last.ov.type \in CompTypes /\ last.arg.type = last.ov.type
     /\ last.ov.component # 0)
        => cvnode.component = last.ov.component

-----------------------------------------------------------------------------
(* getSequence on its own, applied to the source arrays the diff hands it *)

\* the longest source array, and the largest old index in one
MaxSrcLen == 4
MaxOldIdx == 3

\* a source array: -1 for a new node, else the old index of the kept node,
\* no old index twice
IsSource(src) ==
    \A i, j \in DOMAIN src : (i # j /\ src[i] # -1) => src[i] # src[j]

\* the diff calls getSequence only when it found a kept node out of order
OutOfOrder(src) ==
    \E i, j \in DOMAIN src : i < j /\ src[i] # -1 /\ src[j] # -1 /\ src[i] > src[j]

Sources ==
    {src \in UNION {[1..n -> -1..MaxOldIdx] : n \in 1..MaxSrcLen} :
        IsSource(src) /\ OutOfOrder(src)}

InitSeq ==
    /\ host = (Root :> HostNode("element", "root", ""))
    /\ cvnode = NullV
    /\ insts = <<>>
    /\ currentInstance = 0
    /\ count = 0
    /\ log = <<>>
    /\ sched = SchedIdle
    /\ \E src \in Sources : last = [op |-> "source", arg |-> src, result |-> <<>>]

\* const seq = getSequence(source)
GetSequence ==
    /\ last.op = "source"
    /\ sched' = sched
    /\ last' = [op |-> "getSequence", arg |-> last.arg,
                result |-> getSequence(last.arg)]
    /\ UNCHANGED <<host, cvnode, insts, currentInstance, count, log>>

SpecSeq == InitSeq /\ [][GetSequence]_vars

\* the most entries of src, none a hole, that can be taken in order with
\* strictly increasing values
MaxIncreasing(src) ==
    LET Inc(S) == \A i, j \in S : i < j => src[i] < src[j]
        sizes == {Cardinality(S) :
                    S \in {T \in SUBSET {i \in DOMAIN src : src[i] # -1} : Inc(T)}}
    IN CHOOSE n \in sizes : \A m \in sizes : m <= n

\* C18: for every source array of the diff, getSequence returns strictly
\* increasing positions of the array whose values are strictly increasing,
\* none of them a hole (-1), and as many of them as any such subsequence has.
C18_GetSequenceIsLongest ==
    last.op = "getSequence" =>
        LET src == last.arg
            res == last.result
        IN /\ \A k \in DOMAIN res : InRange(src, res[k]) /\ At(src, res[k]) # -1
           /\ \A j, k \in DOMAIN res :
                 j < k => (res[j] < res[k] /\ At(src, res[j]) < At(src, res[k]))
           /\ Len(res) = MaxIncreasing(src)


-----------------------------------------------------------------------------
(* Mounting before an anchor: the keyed reconciliation mounts a new child by  *)
(* patch(null, child, container, anchor), anchor being the node of a child    *)
(* already in the container                                                   *)

\* the node kinds mounted: element, Text, Comment, Fragment, components
AnchorTrees ==
    { Li("n"),
      VNode("p", "n", Props(<< <<"id", "x">> >>), TextChildren("hi")),
      TextV("n", "one"),
      CommentV("n", "note"),
      VNode(Fragment, "n", NoProps, ArrayChildren(<< Li("x"), Li("y") >>)),
      VNode(Fragment, "n", NoProps,
            ArrayChildren(<< TextV("x", "one"), VNode("p", "y", NoProps, NoChildren) >>)),
      VNode("MyComponent", "n", Props(<< <<"title", "t1">> >>), SlotChildren),
      VNode("Counter", "n", NoProps, NoChildren),
      VNode("Parent", "n", NoProps, NoChildren) }

\* a keyed list with at least one child is in the container
InitAnchor ==
    \E l \in KeyLists \ {<<>>} :
        LET r == render(NullV, KeyedDiv(l), Blank)
        IN /\ host = r.s.host
           /\ cvnode = r.nv
           /\ insts = <<>>
           /\ currentInstance = 0
           /\ count = 0
           /\ log = <<>>
           /\ sched = SchedIdle
           /\ last = Idle

\* patch(null, v, container, anchor) with the node of the k-th child as the
\* anchor; before keeps the container's children as they were
PatchBefore(v, k) ==
    /\ last.op = "idle"
    /\ k \in DOMAIN cvnode.children.list
    /\ LET anchor == cvnode.children.list[k].el
           r == patch(NullV, v, cvnode.el, anchor, World)
       IN /\ Publish(r.s)
          /\ cvnode' = cvnode
          /\ sched' = sched
          /\ last' = [op |-> "patch", thrown |-> r.s.thrown, ov |-> NullV,
                      arg |-> r.nv, fresh |-> FALSE, after |-> "other",
                      caught |-> 0, before |-> host[cvnode.el].kids,
                      anchor |-> anchor]

NextAnchor == \E v \in AnchorTrees, k \in 1..MaxKids : PatchBefore(v, k)

SpecAnchor == InitAnchor /\ [][NextAnchor]_vars

\* C19: when patch mounts a node with a non-null anchor, the nodes it creates
\* in the container sit immediately before the anchor, whatever the node kind:
\* the container's children are the old children with the new nodes put in
\* just before the anchor, and nothing is appended
C19_AnchorHonoured ==
    (last.op = "patch" /\ ~last.thrown) =>
        LET before == last.before
            after == host[cvnode.el].kids
            n == Len(after) - Len(before)
            p == IndexOf(before, last.anchor)
        IN /\ n >= 1
           /\ SubSeq(after, 1, p - 1) = SubSeq(before, 1, p - 1)
           /\ SubSeq(after, p + n, Len(after)) = SubSeq(before, p, Len(before))
           /\ \A i \in p..(p + n - 1) : after[i] \notin Range(before)

-----------------------------------------------------------------------------
\* C21: after patchComponent has run to its end with changed props,
\* instance.props holds exactly the props resolved from the new vnode: each
\* resolved name with its new value, and no name that is absent from the
\* resolved set.
C21_PropsAreResolved ==
    (last.op = "patchComponent" /\ ~last.thrown
       /\ ~SameProps(last.ov.props, last.arg.props)) =>
        Range(insts[last.ov.component].props) =
            Range(resolveProps(CompDef(last.arg.type).propsOption,
                               last.arg.props).props)

-----------------------------------------------------------------------------
(* The steps of a component's life, as the log of one call shows them *)

LifeOps == {"hook", "setup", "render", "patchSubTree", "isMounted", "mountedCb",
            "effectEnd"}

Tok(op, txt) == <<op, txt>>

\* the steps of instance i in the log lg, in order
Life(lg, i) ==
    LET mine == SelectSeq(lg, LAMBDA e : e.op \in LifeOps /\ e.el = i)
    IN [k \in DOMAIN mine |-> Tok(mine[k].op, mine[k].txt)]

Opt(def, name) == IF name \in def.hooks THEN << Tok("hook", name) >> ELSE <<>>

CreateSteps(def) ==
    Opt(def, "beforeCreate")
    \o (IF def.setup # "none" THEN << Tok("setup", "") >> ELSE <<>>)
    \o Opt(def, "created")

MountRun(def, cbs) ==
    << Tok("render", "") >> \o Opt(def, "beforeMount")
    \o << Tok("patchSubTree", ""), Tok("isMounted", "") >>
    \o [k \in DOMAIN cbs |-> Tok("mountedCb", cbs[k])]
    \o Opt(def, "mounted") \o << Tok("effectEnd", "") >>

UpdateRun(def) ==
    << Tok("render", "") >> \o Opt(def, "beforeUpdate")
    \o << Tok("patchSubTree", "") >> \o Opt(def, "updated")
    \o << Tok("effectEnd", "") >>

RECURSIVE Repeat(_, _)
Repeat(run, n) == IF n = 0 THEN <<>> ELSE run \o Repeat(run, n - 1)

IsPrefix(a, b) == Len(a) <= Len(b) /\ a = SubSeq(b, 1, Len(a))

\* C22: in every call, an instance created by the call goes through
\* beforeCreate, setup, created, render, beforeMount, the patch of its
\* subtree, isMounted = true, its registered onMounted callbacks in order and
\* the mounted option, in this order; an instance that was already mounted
\* goes through render, beforeUpdate, the patch of its subtree, updated, once
\* per effect run, and never through beforeMount or mounted again. An instance
\* whose first effect run raised before its patch is not mounted yet, and a
\* later run takes it from render through the rest of the first order. A call
\* that raises stops somewhere along the same order.
C22_LifecycleOrder ==
    [][\A i \in DOMAIN insts' :
          LET L == Life(log', i)
              def == CompDef(insts'[i].type)
              full == CreateSteps(def) \o MountRun(def, insts'[i].mounted)
          IN IF i \in DOMAIN insts /\ insts[i].isMounted
             THEN \E n \in 0..Len(L) :
                     /\ IsPrefix(L, Repeat(UpdateRun(def), n))
                     /\ ~last'.thrown => L = Repeat(UpdateRun(def), n)
             ELSE IF i \in DOMAIN insts
             THEN /\ IsPrefix(L, MountRun(def, insts'[i].mounted))
                  /\ ~last'.thrown => L \in {<<>>, MountRun(def, insts'[i].mounted)}
             ELSE /\ IsPrefix(L, full)
                  /\ ~last'.thrown => L = full]_vars

\* an instance whose registered callbacks were called when it was mounted has
\* just gone through an update run with the beforeUpdate and updated options
C22_Witness ==
    /\ last.op = "setCount"
    /\ ~last.thrown
    /\ \E i \in DOMAIN insts :
          /\ insts[i].isMounted
          /\ Len(insts[i].fired) = 2
          /\ {"beforeUpdate", "updated", "mounted"} \subseteq CompDef(insts[i].type).hooks
          /\ Life(log, i) = UpdateRun(CompDef(insts[i].type))

-----------------------------------------------------------------------------
(* A component whose render function raises while the reactive cell holds 1, *)
(* rendered, re-run by writes to the cell and unmounted                      *)

FragileTrees ==
    { VNode("Fragile", UndefKey, NoProps, NoChildren),
      VNode("Counter", UndefKey, NoProps, NoChildren),
      VNode("div", UndefKey, NoProps,
            ArrayChildren(<< VNode("Counter", "c", NoProps, NoChildren),
                             VNode("Fragile", "f", NoProps, NoChildren) >>)),
      TextV(UndefKey, "hello") }

NextFragile ==
    \/ \E v \in FragileTrees : Render(v)
    \/ RenderNull
    \/ \E n \in 0..1 : SetCount(n)
    \/ Collect

SpecFragile == Init /\ [][NextFragile]_vars

\* the effect run of instance i that the log lg ends in raised in its render
\* call: the last step of i is a render with nothing after it
RaisedInRender(lg, i) ==
    /\ Life(lg, i) # <<>>
    /\ Life(lg, i)[Len(Life(lg, i))] = Tok("render", "")

\* the position in lg of the last render call of instance i
LastRender(lg, i) ==
    CHOOSE k \in DOMAIN lg :
        /\ lg[k].op = "render" /\ lg[k].el = i
        /\ \A m \in (k + 1)..Len(lg) : ~(lg[m].op = "render" /\ lg[m].el = i)

\* C23: when the render function of a mounted component raises during an
\* effect re-run, that run issues no host mutation, instance.subTree is still
\* the subtree rendered before, and the host nodes of that subtree are as
\* they were before the call.
C23_RenderThrowKeepsSubTree ==
    [][\A i \in DOMAIN insts :
          (insts[i].isMounted /\ last'.thrown /\ RaisedInRender(log', i)) =>
              /\ \A m \in (LastRender(log', i) + 1)..Len(log') :
                    log'[m].op \notin Mutating
              /\ insts'[i].subTree = insts[i].subTree
              /\ \A el \in Range(ElRefSeq(insts[i].subTree)) :
                    el \in DOMAIN host' /\ host'[el] = host[el]]_vars

\* a write to the cell made the render function of a mounted component, whose
\* subtree is in the container, raise
C23_Witness ==
    /\ last.op = "setCount"
    /\ last.thrown
    /\ \E i \in DOMAIN insts :
          /\ insts[i].type = "Fragile"
          /\ insts[i].isMounted
          /\ RaisedInRender(log, i)
          /\ insts[i].subTree.el # NoEl
          /\ host[insts[i].subTree.el].parent # NoEl

-----------------------------------------------------------------------------
\* C24: once a component vnode has been unmounted its effect is stopped: a
\* later write to the reactive cell its render function reads calls the
\* render function of no unmounted instance (and so makes it create, insert
\* or patch nothing).
C24_UnmountStopsEffect ==
    last.op = "setCount" =>
        \A k \in DOMAIN log :
            log[k].op = "render" => ~insts[log[k].el].unmounted

-----------------------------------------------------------------------------
\* C25: the current-instance register holds an instance only while that
\* instance's setup call is executing. No setup call is executing between
\* two calls into the renderer, so there the register is empty: before any
\* mount, after a setup returned, after a component without setup was mounted
\* and after a setup call ended by raising.
C25_RegisterEmptyOutsideSetup == currentInstance = 0

-----------------------------------------------------------------------------
(* The render context on its own: a component is mounted, and code holding   *)
(* its render context (a lifecycle option or the render function, which are  *)
(* called with it as `this`) reads and writes names through it. The          *)
(* components here have no data() and their setup returns the render         *)
(* function, so state and setupState are null and only the props branch and  *)
(* the branches after it can be taken.                                       *)

\* the set trap. A trap that returns false makes the assignment raise a
\* TypeError when the assigning code is strict (module code is), and is
\* ignored when it is sloppy
ctxSet(id, key, value, strict, s) ==
    IF HasProp(s.insts[id].props, key)
    THEN PC_write(id, key, value,
                  Logged(s, Ev("console.warn", id, NoEl, NoEl, key, Null, Null)))
    ELSE IF key = "$slots"
    THEN IF strict THEN Throw(s) ELSE s
    ELSE IF strict
         THEN Throw(Logged(s, Ev("console.error", id, NoEl, NoEl, key, Null, Null)))
         ELSE Logged(s, Ev("console.error", id, NoEl, NoEl, key, Null, Null))

\* the names read and written
CtxNames == {"title", "id", "extra", "$slots"}

\* this[key], read by code holding the render context of the mounted component
CtxGet(key) ==
    /\ LET r == ctxGet(insts[cvnode.component], key)
       IN /\ UNCHANGED <<host, cvnode, insts, currentInstance, count>>
          /\ log' = <<>>
          /\ sched' = sched
          /\ last' = [op |-> "ctxGet", thrown |-> r.thrown, ov |-> cvnode,
                      arg |-> NullV, fresh |-> FALSE, after |-> "other",
                      caught |-> 0, before |-> insts[cvnode.component],
                      key |-> key, value |-> r.value]

\* this[key] = value
CtxSet(key, value, strict) ==
    /\ LET s == ctxSet(cvnode.component, key, value, strict, World)
       IN /\ Publish(s)
          /\ cvnode' = cvnode
          /\ sched' = sched
          /\ last' = [op |-> "ctxSet", thrown |-> s.thrown, ov |-> cvnode,
                      arg |-> NullV, fresh |-> FALSE, after |-> "other",
                      caught |-> 0, before |-> insts[cvnode.component],
                      key |-> key, value |-> value]

NextCtx ==
    \/ \E key \in CtxNames : CtxGet(key)
    \/ \E key \in CtxNames, value \in {"t1", "t2", "v"}, strict \in BOOLEAN :
          CtxSet(key, value, strict)

SpecCtx == InitPC /\ [][NextCtx]_vars

\* C26: reading the exact name '$slots' through the render context of a
\* component returns the instance's slots mapping whenever '$slots' is not a
\* name of state, props or setupState.
C26_SlotsReadable ==
    (last.op = "ctxGet" /\ last.key = "$slots"
       /\ ~HasProp(last.before.props, "$slots")) =>
        /\ ~last.thrown
        /\ last.value = last.before.slots


\* C27: a write to a prop name through the render context is refused: a
\* diagnostic is emitted, instance.props keeps the value it had for that name
\* and execution continues; a write to a name found in none of state, props
\* and setupState changes nothing.
C27_PropWriteRefused ==
    last.op = "ctxSet" =>
        IF HasProp(last.before.props, last.key)
        THEN /\ Calls({"console.warn"}) # <<>>
             /\ ~last.thrown
             /\ PropGet(insts[cvnode.component].props, last.key) =
                    PropGet(last.before.props, last.key)
        ELSE insts[cvnode.component] = last.before

-----------------------------------------------------------------------------
(* utils/props.js on its own: resolveProps and hasPropsChanged applied to    *)
(* prop mappings drawn from small sets                                       *)

MaxProps == 2

\* the mappings of at most MaxProps names, in every for-in order
PropLists(names, values) ==
    UNION {{l \in [1..n -> names \X values] :
               \A i, j \in 1..n : i # j => l[i][1] # l[j][1]} : n \in 0..MaxProps}

RPOptions ==
    {NoProps, Props(<<>>)}
    \cup {Props(<< <<"title", d>> >>) :
             d \in {"dflt", "<ctor>", "<null>", "<nodefault>", "<fn>"}}
RPIncoming ==
    {NoProps}
    \cup {Props(l) : l \in PropLists({"title", "id", "onChange", "toString"},
                                      {"v", Null})}

InitResolve ==
    /\ host = (Root :> HostNode("element", "root", ""))
    /\ cvnode = NullV
    /\ insts = <<>>
    /\ currentInstance = 0
    /\ count = 0
    /\ log = <<>>
    /\ sched = SchedIdle
    /\ \E o \in RPOptions, v \in RPIncoming :
          last = [op |-> "incoming", options |-> o, arg |-> v,
                  result |-> [thrown |-> FALSE, props |-> <<>>, attrs |-> <<>>]]

\* const [props, attrs] = resolveProps(propsOption, vnode.props)
ResolveProps ==
    /\ last.op = "incoming"
    /\ sched' = sched
    /\ last' = [op |-> "resolveProps", options |-> last.options, arg |-> last.arg,
                result |-> resolveProps(last.options, last.arg)]
    /\ UNCHANGED <<host, cvnode, insts, currentInstance, count, log>>

SpecResolve == InitResolve /\ [][ResolveProps]_vars

\* the default a declaration gives a name: what it declares, the result of
\* the call when that is a function, and undefined when it declares none
DeclaredDefault(options, name) ==
    LET d == PropGet(options.map, name)
    IN IF d \in {"<ctor>", "<null>", "<nodefault>"} THEN Null
       ELSE IF d = "<fn>" THEN "made" ELSE d

\* C28: resolveProps partitions the incoming props: every incoming name lands
\* in exactly one of props and attrs, in props if and only if it is declared
\* or starts with 'on'; an entry of props whose incoming value is null or
\* undefined takes the declared default (the result of calling it when it is
\* a function), and every other entry keeps its incoming value.
C28_ResolvePartitions ==
    last.op = "resolveProps" =>
        LET res == last.result
            incoming == last.arg.map
        IN /\ ~res.thrown
           /\ PropNames(res.props) \cup PropNames(res.attrs) = PropNames(incoming)
           /\ PropNames(res.props) \cap PropNames(res.attrs) = {}
           /\ \A i \in DOMAIN incoming :
                 LET name == incoming[i][1]
                     value == incoming[i][2]
                 IN /\ HasProp(res.props, name) <=>
                          (HasProp(last.options.map, name) \/ StartsWithOn(name))
                    /\ HasProp(res.props, name) =>
                          PropGet(res.props, name) =
                              IF value # Null THEN value
                              ELSE DeclaredDefault(last.options, name)
                    /\ HasProp(res.attrs, name) => PropGet(res.attrs, name) = value


HCProps == {Props(l) : l \in PropLists({"a", "b"}, {"1", "2", Null})}

InitChanged ==
    /\ host = (Root :> HostNode("element", "root", ""))
    /\ cvnode = NullV
    /\ insts = <<>>
    /\ currentInstance = 0
    /\ count = 0
    /\ log = <<>>
    /\ sched = SchedIdle
    /\ \E p \in HCProps, q \in HCProps :
          last = [op |-> "pair", prev |-> p, next |-> q,
                  forth |-> FALSE, back |-> FALSE]

\* hasPropsChanged(p, q) and hasPropsChanged(q, p)
HasPropsChanged ==
    /\ last.op = "pair"
    /\ sched' = sched
    /\ last' = [op |-> "hasPropsChanged", prev |-> last.prev, next |-> last.next,
                forth |-> hasPropsChanged(last.prev, last.next),
                back |-> hasPropsChanged(last.next, last.prev)]
    /\ UNCHANGED <<host, cvnode, insts, currentInstance, count, log>>

SpecChanged == InitChanged /\ [][HasPropsChanged]_vars

\* C29: hasPropsChanged is symmetric and exact: for two prop mappings p and q
\* whose values may be undefined, hasPropsChanged(p, q) equals
\* hasPropsChanged(q, p), and it is false only when p and q have the same
\* names with strictly equal values.
C29_HasPropsChangedExact ==
    last.op = "hasPropsChanged" =>
        /\ last.forth = last.back
        /\ ~last.forth => Range(last.prev.map) = Range(last.next.map)

-----------------------------------------------------------------------------
(* patchChildren on its own: an element is in the container, and a render    *)
(* patches it against an element of the same type with other children        *)

\* children that are a primitive other than a string
NumChildren(t) == [kind |-> "number", text |-> t, list |-> <<>>]

ChildKinds ==
    { NoChildren, TextChildren("hi"), TextChildren("bye"),
      NumChildren("5"), NumChildren("7"),
      ArrayChildren(<< VNode("p", UndefKey, NoProps, NoChildren),
                       VNode("span", UndefKey, NoProps, TextChildren("s")) >>),
      ArrayChildren(<< TextV(UndefKey, "one") >>),
      ArrayChildren(<< Li("a"), Li("b") >>) }

ChildTrees == {VNode(tag, UndefKey, NoProps, c) : tag \in {"div", "p"}, c \in ChildKinds}

InitChildren ==
    \E v \in ChildTrees :
        LET r == render(NullV, v, Blank)
        IN /\ host = r.s.host
           /\ cvnode = r.nv
           /\ insts = <<>>
           /\ currentInstance = 0
           /\ count = 0
           /\ log = <<>>
           /\ sched = SchedIdle
           /\ last = Idle

NextChildren ==
    \/ \E v \in ChildTrees : Render(v)
    \/ Collect

SpecChildren == InitChildren /\ [][NextChildren]_vars

\* C30: when the new vnode has no children, patchChildren leaves the element
\* with no child content: old array children are each unmounted, and old
\* primitive text, a string or any other primitive such as a number, is
\* cleared with setElementText(container, '').
C30_NoChildrenEmpties ==
    (last.op = "render" /\ ~last.thrown /\ last.ov.type = last.arg.type
       /\ last.arg.children.kind = "none") =>
        /\ host[cvnode.el].kids = <<>>
        /\ host[cvnode.el].text = ""
        /\ last.ov.children.kind = "array" =>
              \A i \in DOMAIN last.ov.children.list :
                 \E k \in DOMAIN log :
                    /\ log[k].op = "removeChild"
                    /\ log[k].el = last.ov.children.list[i].el
        /\ last.ov.children.kind \in {"text", "number"} =>
              \E k \in DOMAIN log :
                 /\ log[k].op = "setElementText"
                 /\ log[k].el = cvnode.el
                 /\ log[k].txt = ""

-----------------------------------------------------------------------------
\* the patchProps calls made on the node el, as <<name, prev, next>>
PropCalls(el) ==
    LET mine == SelectSeq(log, LAMBDA e : e.op = "patchProps" /\ e.el = el)
    IN [k \in DOMAIN mine |-> <<mine[k].txt, mine[k].prev, mine[k].next>>]

\* C31: patchElement, for old and new props that may each be absent, calls
\* patchProps(el, name, oldValue, newValue) exactly for the names of the new
\* props whose value differs from the old one and patchProps(el, name,
\* oldValue, null) exactly for the names of the old props that the new props
\* lack, each once, and then reconciles the children on the carried-over el.
\* The element patched is the container's root vnode.
C31_PatchElementProps ==
    (last.op = "render" /\ last.ov.type \in Tags /\ last.arg.type = last.ov.type
       /\ last.arg # last.ov) =>
        LET old == last.ov.props.map
            new == last.arg.props.map
            calls == PropCalls(last.ov.el)
        IN /\ Range(calls) =
                 {<<new[i][1], PropGet(old, new[i][1]), new[i][2]>> :
                     i \in {j \in DOMAIN new : new[j][2] # PropGet(old, new[j][1])}}
                 \cup {<<old[i][1], old[i][2], Null>> :
                          i \in {j \in DOMAIN old : ~HasProp(new, old[j][1])}}
           /\ Len(calls) = Cardinality(Range(calls))
           /\ ~last.thrown => cvnode.el = last.ov.el

-----------------------------------------------------------------------------
(* The scheduler as a state machine: callers hand jobs to queueJob between
   flushes, and the callback registered on p runs the queue. A job is any
   function: each execution may hand one job to queueJob and may throw *)

\* a caller outside a flush calls queueJob(job)
QueueJob(job) ==
    /\ sched.pos = 0
    /\ LET round == IF sched.isFlushing THEN sched
                    ELSE [sched EXCEPT !.asked = {}, !.runs = [j \in Jobs |-> 0]]
       IN sched' = [queueJob(job, round) EXCEPT !.asked = @ \cup {job}]
    /\ last' = [op |-> "queueJob", thrown |-> FALSE, arg |-> job]
    /\ UNCHANGED <<host, cvnode, insts, currentInstance, count, log>>

\* the microtask queue starts a callback registered with p.then
FlushStart ==
    /\ sched.pos = 0
    /\ sched.pending > 0
    /\ sched' = [sched EXCEPT !.pending = @ - 1, !.pos = 1]
    /\ last' = [op |-> "flush", thrown |-> FALSE, arg |-> NoJob]
    /\ UNCHANGED <<host, cvnode, insts, currentInstance, count, log>>

\* queue.forEach visits its next element: job?.() runs, calls queueJob(again)
\* unless again is NoJob, and throws if throws; a throw leaves forEach and the
\* try for the finally block
RunJob(again, throws) ==
    /\ sched.pos \in 1..Len(sched.queue)
    /\ LET job == sched.queue[sched.pos]
           started == [sched EXCEPT !.owed = @ \ {job}, !.runs[job] = @ + 1]
           body == IF again = NoJob THEN started ELSE queueJob(again, started)
       IN /\ sched' = IF throws THEN flushFinally(body)
                      ELSE [body EXCEPT !.pos = @ + 1]
          /\ last' = [op |-> IF throws THEN "flushed" ELSE "job",
                      thrown |-> throws, arg |-> job]
    /\ UNCHANGED <<host, cvnode, insts, currentInstance, count, log>>

\* queue.forEach has visited every element: the finally block runs
FlushEnd ==
    /\ sched.pos > Len(sched.queue)
    /\ sched' = flushFinally(sched)
    /\ last' = [op |-> "flushed", thrown |-> FALSE, arg |-> NoJob]
    /\ UNCHANGED <<host, cvnode, insts, currentInstance, count, log>>

NextSched ==
    \/ \E job \in Jobs : QueueJob(job)
    \/ FlushStart
    \/ \E again \in Jobs \cup {NoJob}, throws \in BOOLEAN : RunJob(again, throws)
    \/ FlushEnd

InitSched ==
    /\ host = (Root :> HostNode("element", "root", ""))
    /\ cvnode = NullV
    /\ insts = <<>>
    /\ currentInstance = 0
    /\ count = 0
    /\ log = <<>>
    /\ sched = SchedIdle
    /\ last = Idle

SpecSched == InitSched /\ [][NextSched]_vars

\* C32: at most one callback is waiting on p at any time, no job is executed
\* twice in one flush, and when a flush has ended every job that callers handed to
\* queueJob before it, however many times, has been executed exactly once in it
C32_Coalescing ==
    /\ sched.pending <= 1
    /\ \A j \in Jobs : sched.runs[j] <= 1
    /\ last.op = "flushed" => \A j \in sched.asked : sched.runs[j] = 1

\* pending microtasks run: a callback registered on p is started, and a started
\* callback runs to its end
SpecSchedLive ==
    /\ SpecSched
    /\ WF_vars(FlushStart)
    /\ WF_vars(\E again \in Jobs \cup {NoJob}, throws \in BOOLEAN : RunJob(again, throws))
    /\ WF_vars(FlushEnd)

\* C33: every job handed to queueJob, by a caller outside a flush or by a job
\* during one, later starts an execution
C33_NoJobLost == \A j \in Jobs : (j \in sched.owed) ~> (j \notin sched.owed)

-----------------------------------------------------------------------------
(* Sibling keys of different types: the number 1 and the string '1' *)

MixedLists ==
    UNION {{l \in [1..n -> {NumOne, "1", "a"}] : IsDistinct(l)} : n \in 0..MaxKids}

InitMixed ==
    \E l \in MixedLists :
        LET r == render(NullV, KeyedDiv(l), Blank)
        IN /\ host = r.s.host
           /\ cvnode = r.nv
           /\ insts = <<>>
           /\ currentInstance = 0
           /\ count = 0
           /\ log = <<>>
           /\ sched = SchedIdle
           /\ last = Idle

NextMixed == \E l \in MixedLists : Render(KeyedDiv(l))

SpecMixed == InitMixed /\ [][NextMixed]_vars

\* C34: when a keyed list has been rendered over another, a new child took over
\* the element of an old child only if their keys are strictly equal
C34_KeysMatchStrictly ==
    (last.op = "render" /\ ~last.thrown) =>
        \A i \in DOMAIN last.ov.children.list, j \in DOMAIN cvnode.children.list :
            cvnode.children.list[j].el = last.ov.children.list[i].el =>
                cvnode.children.list[j].key = last.ov.children.list[i].key

-----------------------------------------------------------------------------
(* Unmounting trees that hold Fragments, props and components *)

UnmountKids ==
    { << VNode("p", "a", Props(<< <<"id", "x">> >>), NoChildren) >>,
      << TextV("t", "one"), VNode("span", "s", NoProps, TextChildren("s")) >>,
      << VNode(Fragment, "f", NoProps,
               ArrayChildren(<< VNode("p", "a", Props(<< <<"class", "k">> >>), NoChildren) >>)) >>,
      << VNode("MyComponent", "m", Props(<< <<"title", "t1">> >>), SlotChildren) >> }

UnmountTrees ==
    {VNode(t, UndefKey, NoProps, ArrayChildren(k)) : t \in {"div", Fragment}, k \in UnmountKids}

InitUnmount ==
    \E v \in UnmountTrees :
        LET r == render(NullV, v, Blank)
        IN /\ ~r.s.thrown
           /\ host = r.s.host
           /\ cvnode = r.nv
           /\ insts = r.s.insts
           /\ currentInstance = r.s.cur
           /\ count = 0
           /\ log = <<>>
           /\ sched = SchedIdle
           /\ last = Idle

NextUnmount ==
    \/ \E v \in UnmountTrees : Render(v)
    \/ RenderNull
    \/ Collect

SpecUnmount == InitUnmount /\ [][NextUnmount]_vars

\* the element, Text and Comment vnodes of a mounted tree, through children,
\* Fragments and the trees components rendered
RECURSIVE HostVNodes(_), HostVNodesAll(_)
HostVNodes(v) ==
    IF v.type = "null" THEN <<>>
    ELSE IF v.type \in CompTypes
    THEN IF v.component = 0 THEN <<>> ELSE HostVNodes(insts[v.component].subTree)
    ELSE (IF v.type \in Tags \cup {Text, Comment} THEN <<v>> ELSE <<>>)
         \o HostVNodesAll(v.children.list)
HostVNodesAll(list) ==
    IF list = <<>> THEN <<>> ELSE HostVNodes(Head(list)) \o HostVNodesAll(Tail(list))

\* C35: render(null, container) unmounts container._vnode: it returns, each
\* host vnode below it has its node removed by exactly one removeChild call, each
\* prop of each host vnode gets exactly one patchProps(el, name, old, null), and
\* no patchProps call is made on an undefined el
C35_UnmountVisitsOnce ==
    last.op = "renderNull" =>
        /\ ~last.thrown
        /\ \A e \in Range(log) : e.op = "patchProps" => e.el # NoEl
        /\ \A k \in DOMAIN HostVNodes(last.ov) :
              LET hv == HostVNodes(last.ov)[k]
              IN /\ hv.el # NoEl
                 /\ Len(SelectSeq(log, LAMBDA e : e.op = "removeChild" /\ e.el = hv.el)) = 1
                 /\ \A i \in DOMAIN hv.props.map :
                       Len(SelectSeq(log, LAMBDA e :
                               /\ e.op = "patchProps"
                               /\ e.el = hv.el
                               /\ e.txt = hv.props.map[i][1]
                               /\ e.prev = hv.props.map[i][2]
                               /\ e.next = Null)) = 1

-----------------------------------------------------------------------------
(* el back-references after a render *)

\* the host node el is attached below the container: its chain of parents
\* reaches the container
RECURSIVE AttachedUnder(_, _)
AttachedUnder(el, container) ==
    /\ el \in DOMAIN host
    /\ host[el].parent # NoEl
    /\ \/ host[el].parent = container
       \/ AttachedUnder(host[el].parent, container)

\* C36: after render(v, container) with a non-null v has returned, every
\* element, Text and Comment vnode reachable from container._vnode, through
\* children and the trees components rendered, has its el set to a host node
\* that is attached under the container
C36_ElAttached ==
    (last.op = "render" /\ ~last.thrown) =>
        \A k \in DOMAIN HostVNodes(cvnode) :
            /\ HostVNodes(cvnode)[k].el # NoEl
            /\ AttachedUnder(HostVNodes(cvnode)[k].el, Root)

=============================================================================
